---- MODULE Spec2Model ----
(***************************************************************************)
(* Model of the image-to-cartoon converter: the FastAPI entry points of    *)
(* backend/app.py, the validator, decoder and resizer of backend/utils.py  *)
(* and the style pipelines of backend/cartoon_converter.py and             *)
(* backend/ai_converter.py.                                                *)
(*                                                                         *)
(* A pipeline is kept as the list of library calls its function makes, in  *)
(* source order.  The list is interpreted twice: over frame shapes         *)
(* (width, height, channels) for the request handlers, and over the pixel  *)
(* values of a small one-row frame for the pixel-level properties.         *)
(***************************************************************************)
EXTENDS Integers, Sequences, FiniteSets, TLC

VARIABLES
    pc,         \* "idle" before the request, "batch" in the loop of
                \* batch_convert_images, "done" once the handler has answered
    endpoint,   \* the handler that ran last: "none", "convert", "batch"
    style,      \* the style form field of the current request
    file,       \* the upload the handler (or the current loop turn) worked on
    calls,      \* the calls made for that upload, in order
    response,   \* the HTTP answer of the last finished request
    nfiles,     \* len(files) of the batch request in progress
    results,    \* the results list of the batch request in progress
    frames,     \* the frame the last pipeline call was given and the one it returned
    rz,         \* resize_image: its last input and output
    px,         \* the pixel-level run of a pipeline on a small frame
    qz,         \* _quantize_colors: its last input and output
    raised,     \* what the try block of convert_image raised, if anything
    sb,         \* a pipeline run on a frame of equal rows, values kept for the
                \* gradient branch
    en,         \* a channel value under the enhancement scalings
    cc,         \* concurrent pipeline calls on the shared converter objects
    sv          \* the converter objects and the style listing

side == <<sb, en, cc, sv>>

vars == <<pc, endpoint, style, file, calls, response, nfiles, results, frames, raised, rz, px, qz, side>>

reqVars == <<pc, endpoint, style, file, calls, response, nfiles, results, frames, raised>>

(***************************************************************************)
(* Program constants                                                       *)
(***************************************************************************)
MaxBatchFiles == 10

MaxSizeMb == 10

BytesPerMb == 1048576

MinDim == 50

MaxDim == 10000

MaxWidth == 1920

MaxHeight == 1080

\* criteria of cv2.kmeans: at most this many iterations
KmeansMaxCount == 100

(***************************************************************************)
(* Bounds of the model                                                     *)
(***************************************************************************)
\* Batch items that vary over every kind of upload; later items are sound files.
MaxVaried == 2

\* Extra frame sizes fed to resize_image, beside the boundary sizes.
ResizeSamples == 3

\* Pixels in the one-row frame of the pixel-level runs.
RowLen == 3

\* Distinct colours in a frame given to _quantize_colors.
MaxServed == 2

MaxColours == 3

(***************************************************************************)
(* Uploads                                                                 *)
(***************************************************************************)
NoFile == [ext |-> "", size |-> 0, kind |-> "none", w |-> 0, h |-> 0, mode |-> ""]

Cap == MaxSizeMb * BytesPerMb

\* kind: "image" opens and verifies; "corrupt" opens (its header gives a size)
\* but fails verify(); "garbage" does not open at all.
Uploads ==
    [ext : {"jpg", "exe"}, size : {Cap, Cap + 1}, kind : {"image", "corrupt", "garbage"},
     w : {MinDim - 1, MinDim, MaxDim, MaxDim + 1}, h : {MinDim - 1, MinDim, MaxDim + 1},
     mode : {"RGB", "RGBA", "L"}]

SoundUpload == [ext |-> "jpg", size |-> Cap, kind |-> "image", w |-> 200, h |-> 200, mode |-> "RGB"]

BatchUploads ==
    {SoundUpload,
     [SoundUpload EXCEPT !.ext = "exe"],
     [SoundUpload EXCEPT !.size = Cap + 1],
     [SoundUpload EXCEPT !.kind = "garbage"],
     [SoundUpload EXCEPT !.kind = "corrupt"],
     [SoundUpload EXCEPT !.w = MinDim - 1],
     [SoundUpload EXCEPT !.mode = "L"]}

AllowedExtensions == {"png", "jpg", "jpeg", "gif", "bmp", "webp"}

allowed_file(f) == f.ext # "" /\ f.ext \in AllowedExtensions

(***************************************************************************)
(* Pipelines as programs: one entry per library call, in source order.     *)
(* fn is the call, par its parameters, dst the variable assigned, a and b  *)
(* the variables read, stage the part of the chain the call belongs to.    *)
(***************************************************************************)
Range(q) == {q[i] : i \in DOMAIN q}

Op(fn, par, dst, a, b, stage) ==
    [fn |-> fn, par |-> par, dst |-> dst, a |-> a, b |-> b, stage |-> stage]

Program(ops, ret) == [ops |-> ops, ret |-> ret]

classic_cartoon ==
    Program(<<
      Op("bilateralFilter", "d=9,sc=300,ss=300", "smooth", "image", "", "smooth"),
      Op("bilateralFilter", "d=9,sc=300,ss=300", "smooth", "smooth", "", "smooth"),
      Op("cvtColor", "BGR2GRAY", "gray", "image", "", "edges"),
      Op("medianBlur", "7", "gray", "gray", "", "edges"),
      Op("adaptiveThreshold", "MEAN,BINARY,9,2", "edges", "gray", "", "edges"),
      Op("quantize_colors", "k=12", "quantized", "smooth", "", "quantize"),
      Op("cvtColor", "BGR2HSV", "quantized_hsv", "quantized", "", "enhance"),
      Op("scale", "S*1.2", "quantized_hsv", "quantized_hsv", "", "enhance"),
      Op("cvtColor", "HSV2BGR", "quantized", "quantized_hsv", "", "enhance"),
      Op("cvtColor", "GRAY2BGR", "edges_colored", "edges", "", "composite"),
      Op("bitwise_and", "", "cartoon", "quantized", "edges_colored", "composite"),
      Op("filter2D", "0,-1,0,-1,5,-1,0,-1,0", "cartoon", "cartoon", "", "sharpen")
    >>, "cartoon")

smooth_cartoon ==
    Program(<<
      Op("bilateralFilter", "d=15,sc=80,ss=80", "smooth", "image", "", "smooth"),
      Op("bilateralFilter", "d=9,sc=300,ss=300", "smooth", "smooth", "", "smooth"),
      Op("cvtColor", "BGR2GRAY", "gray", "smooth", "", "edges"),
      Op("medianBlur", "7", "gray", "gray", "", "edges"),
      Op("adaptiveThreshold", "MEAN,BINARY,9,5", "edges", "gray", "", "edges"),
      Op("quantize_colors", "k=6", "quantized", "smooth", "", "quantize"),
      Op("cvtColor", "GRAY2BGR", "edges_colored", "edges", "", "composite"),
      Op("bitwise_and", "", "cartoon", "quantized", "edges_colored", "composite")
    >>, "cartoon")

\* edge_heavy with the colours quantized from the source frame, before the
\* smoothing.
edge_heavy_quantize_first ==
    Program(<<
      Op("quantize_colors", "k=14", "quantized", "image", "", "quantize"),
      Op("bilateralFilter", "d=9,sc=250,ss=250", "smooth", "image", "", "smooth"),
      Op("cvtColor", "BGR2GRAY", "gray", "image", "", "edges"),
      Op("Canny", "50,150", "edges_canny", "gray", "", "edges"),
      Op("medianBlur", "5", "gray_blur", "gray", "", "edges"),
      Op("adaptiveThreshold", "MEAN,BINARY,9,2", "edges_adaptive", "gray_blur", "", "edges"),
      Op("bitwise_not", "", "not_canny", "edges_canny", "", "edges"),
      Op("bitwise_or", "", "edges", "not_canny", "edges_adaptive", "edges"),
      Op("morphologyEx", "CLOSE,2x2", "edges", "edges", "", "edges"),
      Op("cvtColor", "BGR2HSV", "quantized_hsv", "quantized", "", "enhance"),
      Op("scale", "S*1.3", "quantized_hsv", "quantized_hsv", "", "enhance"),
      Op("scale", "V*1.1", "quantized_hsv", "quantized_hsv", "", "enhance"),
      Op("cvtColor", "HSV2BGR", "quantized", "quantized_hsv", "", "enhance"),
      Op("cvtColor", "GRAY2BGR", "edges_colored", "edges", "", "composite"),
      Op("bitwise_and", "", "cartoon", "quantized", "edges_colored", "composite")
    >>, "cartoon")

edge_heavy_cartoon ==
    Program(<<
      Op("bilateralFilter", "d=9,sc=250,ss=250", "smooth", "image", "", "smooth"),
      Op("cvtColor", "BGR2GRAY", "gray", "image", "", "edges"),
      Op("Canny", "50,150", "edges_canny", "gray", "", "edges"),
      Op("medianBlur", "5", "gray_blur", "gray", "", "edges"),
      Op("adaptiveThreshold", "MEAN,BINARY,9,2", "edges_adaptive", "gray_blur", "", "edges"),
      Op("bitwise_not", "", "not_canny", "edges_canny", "", "edges"),
      Op("bitwise_or", "", "edges", "not_canny", "edges_adaptive", "edges"),
      Op("morphologyEx", "CLOSE,2x2", "edges", "edges", "", "edges"),
      Op("quantize_colors", "k=14", "quantized", "smooth", "", "quantize"),
      Op("cvtColor", "BGR2HSV", "quantized_hsv", "quantized", "", "enhance"),
      Op("scale", "S*1.3", "quantized_hsv", "quantized_hsv", "", "enhance"),
      Op("scale", "V*1.1", "quantized_hsv", "quantized_hsv", "", "enhance"),
      Op("cvtColor", "HSV2BGR", "quantized", "quantized_hsv", "", "enhance"),
      Op("cvtColor", "GRAY2BGR", "edges_colored", "edges", "", "composite"),
      Op("bitwise_and", "", "cartoon", "quantized", "edges_colored", "composite")
    >>, "cartoon")

ultra_quality_cartoon ==
    Program(<<
      Op("fastNlMeansDenoisingColored", "10,10,7,21", "denoised", "image", "", "smooth"),
      Op("copy", "alias", "smooth", "denoised", "", "smooth"),
      Op("bilateralFilter", "d=9,sc=75,ss=75", "smooth", "smooth", "", "smooth"),
      Op("bilateralFilter", "d=9,sc=75,ss=75", "smooth", "smooth", "", "smooth"),
      Op("bilateralFilter", "d=9,sc=75,ss=75", "smooth", "smooth", "", "smooth"),
      Op("cvtColor", "BGR2GRAY", "gray", "image", "", "edges"),
      Op("Sobel", "1,0,3", "sobelx", "gray", "", "edges"),
      Op("Sobel", "0,1,3", "sobely", "gray", "", "edges"),
      Op("magnitude", "", "sobel", "sobelx", "sobely", "edges"),
      Op("normalize", "255*x/max", "sobel", "sobel", "", "edges"),
      Op("threshold", "50,255,BINARY_INV", "edges_sobel", "sobel", "", "edges"),
      Op("medianBlur", "7", "gray_blur", "gray", "", "edges"),
      Op("adaptiveThreshold", "GAUSSIAN,BINARY,11,2", "edges_adaptive", "gray_blur", "", "edges"),
      Op("Canny", "30,100", "edges_canny", "gray", "", "edges"),
      Op("dilate", "2x2", "edges_canny", "edges_canny", "", "edges"),
      Op("bitwise_not", "", "edges_canny", "edges_canny", "", "edges"),
      Op("bitwise_and", "", "edges", "edges_sobel", "edges_adaptive", "edges"),
      Op("bitwise_and", "", "edges", "edges", "edges_canny", "edges"),
      Op("morphologyEx", "CLOSE,ellipse3x3", "edges", "edges", "", "edges"),
      Op("quantize_colors", "k=16", "quantized", "smooth", "", "quantize"),
      Op("cvtColor", "BGR2LAB", "lab", "quantized", "", "enhance"),
      Op("scale", "L*1.05", "lab", "lab", "", "enhance"),
      Op("cvtColor", "LAB2BGR", "quantized", "lab", "", "enhance"),
      Op("cvtColor", "BGR2HSV", "hsv", "quantized", "", "enhance"),
      Op("scale", "S*1.4", "hsv", "hsv", "", "enhance"),
      Op("cvtColor", "HSV2BGR", "quantized", "hsv", "", "enhance"),
      Op("cvtColor", "GRAY2BGR", "edges_colored", "edges", "", "composite"),
      Op("bitwise_and", "", "cartoon", "quantized", "edges_colored", "composite"),
      Op("GaussianBlur", "sigma=2.0", "gaussian", "cartoon", "", "sharpen"),
      Op("addWeighted", "1.5,-0.5,0", "cartoon", "cartoon", "gaussian", "sharpen"),
      Op("cvtColor", "BGR2LAB", "lab", "cartoon", "", "contrast"),
      Op("clahe", "clip=2.0,tiles=8x8", "lab", "lab", "", "contrast"),
      Op("cvtColor", "LAB2BGR", "cartoon", "lab", "", "contrast")
    >>, "cartoon")

\* stylize_pencil_sketch returning sketch_color whatever its color argument.
pencil_sketch_always_color ==
    Program(<<
      Op("pencilSketch", "60,0.07,0.05,color", "sketch_color", "image", "", "npr")
    >>, "sketch_color")

pencil_sketch_gray ==
    Program(<<
      Op("pencilSketch", "60,0.07,0.05,gray", "sketch_gray", "image", "", "npr")
    >>, "sketch_gray")

pencil_sketch_color ==
    Program(<<
      Op("pencilSketch", "60,0.07,0.05,color", "sketch_color", "image", "", "npr")
    >>, "sketch_color")

oil_painting ==
    Program(<<
      Op("stylization", "sigma_s=60,sigma_r=0.6", "result", "image", "", "npr")
    >>, "result")

simple_gan_style ==
    Program(<<
      Op("cvtColor", "BGR2RGB", "img_rgb", "image", "", "convert"),
      Op("bilateralFilter", "d=9,sc=75,ss=75", "bilateral", "img_rgb", "", "smooth"),
      Op("bilateralFilter", "d=9,sc=75,ss=75", "bilateral", "bilateral", "", "smooth"),
      Op("cvtColor", "RGB2HSV", "img_hsv", "bilateral", "", "enhance"),
      Op("scale", "S*1.3,float64", "img_hsv", "img_hsv", "", "enhance"),
      Op("cvtColor", "HSV2RGB", "enhanced", "img_hsv", "", "enhance"),
      Op("quantize_colors", "k=12", "quantized", "enhanced", "", "quantize"),
      Op("filter2D", "-1,-1,-1,-1,9,-1,-1,-1,-1", "sharpened", "quantized", "", "sharpen"),
      Op("addWeighted", "0.7,0.3,0", "result", "quantized", "sharpened", "sharpen"),
      Op("cvtColor", "RGB2BGR", "result_bgr", "result", "", "convert")
    >>, "result_bgr")

anime_style ==
    Program(<<
      Op("cvtColor", "BGR2RGB", "img_rgb", "image", "", "convert"),
      Op("copy", "", "bilateral", "img_rgb", "", "smooth"),
      Op("bilateralFilter", "d=9,sc=60,ss=60", "bilateral", "bilateral", "", "smooth"),
      Op("bilateralFilter", "d=9,sc=60,ss=60", "bilateral", "bilateral", "", "smooth"),
      Op("bilateralFilter", "d=9,sc=60,ss=60", "bilateral", "bilateral", "", "smooth"),
      Op("cvtColor", "RGB2HSV", "img_hsv", "bilateral", "", "enhance"),
      Op("scale", "S*1.5", "img_hsv", "img_hsv", "", "enhance"),
      Op("scale", "V*1.1", "img_hsv", "img_hsv", "", "enhance"),
      Op("cvtColor", "HSV2RGB", "enhanced", "img_hsv", "", "enhance"),
      Op("cvtColor", "BGR2GRAY", "gray", "image", "", "edges"),
      Op("Canny", "50,150", "edges", "gray", "", "edges"),
      Op("dilate", "2x2", "edges", "edges", "", "edges"),
      Op("bitwise_not", "", "edges_inv", "edges", "", "edges"),
      Op("quantize_colors", "k=16", "quantized", "enhanced", "", "quantize"),
      Op("cvtColor", "GRAY2RGB", "edges_colored", "edges_inv", "", "composite"),
      Op("bitwise_and", "", "result", "quantized", "edges_colored", "composite"),
      Op("bilateralFilter", "d=5,sc=50,ss=50", "result", "result", "", "smooth_after"),
      Op("cvtColor", "RGB2BGR", "result_bgr", "result", "", "convert")
    >>, "result_bgr")

\* The watercolor calls with the blur before the stylization.
watercolor_blur_first ==
    Program(<<
      Op("edgePreservingFilter", "flags=1,sigma_s=60,sigma_r=0.6", "smooth", "image", "", "smooth"),
      Op("GaussianBlur", "5x5,0", "result", "smooth", "", "blur"),
      Op("stylization", "sigma_s=60,sigma_r=0.5", "stylized", "result", "", "npr"),
      Op("cvtColor", "BGR2HSV", "img_hsv", "stylized", "", "enhance"),
      Op("scale", "S*1.2", "img_hsv", "img_hsv", "", "enhance"),
      Op("cvtColor", "HSV2BGR", "result", "img_hsv", "", "enhance")
    >>, "result")

watercolor_style ==
    Program(<<
      Op("edgePreservingFilter", "flags=1,sigma_s=60,sigma_r=0.6", "smooth", "image", "", "smooth"),
      Op("stylization", "sigma_s=60,sigma_r=0.5", "stylized", "smooth", "", "npr"),
      Op("GaussianBlur", "5x5,0", "result", "stylized", "", "blur"),
      Op("cvtColor", "BGR2HSV", "img_hsv", "result", "", "enhance"),
      Op("scale", "S*1.2", "img_hsv", "img_hsv", "", "enhance"),
      Op("cvtColor", "HSV2BGR", "result", "img_hsv", "", "enhance")
    >>, "result")

Programs ==
    {classic_cartoon, smooth_cartoon, edge_heavy_cartoon, ultra_quality_cartoon,
     pencil_sketch_gray, pencil_sketch_color, oil_painting,
     simple_gan_style, anime_style, watercolor_style}

\* The names of the library calls that make up the pipelines' stages.
StageFns == UNION {{p.ops[i].fn : i \in DOMAIN p.ops} : p \in Programs}

(***************************************************************************)
(* Frame shapes                                                            *)
(***************************************************************************)
Shape(w, h, ch) == [w |-> w, h |-> h, ch |-> ch]

\* What a call that raised leaves behind.
NoShape == Shape(0, 0, 0)

\* pixels = image.reshape((-1, 3)) ... quantized.reshape(image.shape)
QuantizeShapeNoReshape(sh) ==
    IF (sh.w * sh.h * sh.ch) % 3 # 0 THEN NoShape
    ELSE Shape(3, (sh.w * sh.h * sh.ch) \div 3, 1)

QuantizeShape(sh) ==
    IF (sh.w * sh.h * sh.ch) % 3 # 0 THEN NoShape ELSE sh

\* cv2.cvtColor: the channel counts each conversion code takes and gives.
CvtColorShape(code, sh) ==
    CASE code \in {"BGR2GRAY"} ->
           IF sh.ch \in {3, 4} THEN Shape(sh.w, sh.h, 1) ELSE NoShape
      [] code \in {"GRAY2BGR", "GRAY2RGB"} ->
           IF sh.ch = 1 THEN Shape(sh.w, sh.h, 3) ELSE NoShape
      [] code \in {"BGR2RGB", "RGB2BGR"} ->
           IF sh.ch \in {3, 4} THEN Shape(sh.w, sh.h, 3) ELSE NoShape
      [] OTHER ->
           IF sh.ch = 3 THEN sh ELSE NoShape

\* The shape a library call returns for operands of shapes a and b.
ShapeOf(op, a, b) ==
    CASE op.fn = "cvtColor" -> CvtColorShape(op.par, a)
      [] op.fn = "quantize_colors" -> QuantizeShape(a)
      [] op.fn \in {"Canny", "adaptiveThreshold"} ->
           IF a.ch = 1 THEN a ELSE NoShape
      [] op.fn \in {"fastNlMeansDenoisingColored", "stylization", "edgePreservingFilter"} ->
           IF a.ch = 3 THEN a ELSE NoShape
      [] op.fn = "pencilSketch" ->
           IF a.ch # 3 THEN NoShape
           ELSE IF op.par = "60,0.07,0.05,gray" THEN Shape(a.w, a.h, 1) ELSE a
      [] op.fn = "bilateralFilter" ->
           IF a.ch \in {1, 3} THEN a ELSE NoShape
      [] op.fn \in {"bitwise_and", "bitwise_or", "addWeighted", "magnitude"} ->
           IF a = b THEN a ELSE NoShape
      [] OTHER -> a

\* Runs ops[i..] over the environment env of named frames; the call at index
\* faultAt raises (0: none does), and so does a call that rejects the shapes
\* of its operands.  ran counts the calls made, why says what raised.
RECURSIVE ShapeRun(_, _, _, _)
ShapeRun(ops, i, env, faultAt) ==
    IF i > Len(ops) THEN [ok |-> TRUE, env |-> env, ran |-> Len(ops), why |-> "none"]
    ELSE LET op == ops[i]
             known == op.a \in DOMAIN env /\ (op.b = "" \/ op.b \in DOMAIN env)
             sh == IF i = faultAt \/ ~known THEN NoShape
                   ELSE ShapeOf(op, env[op.a], IF op.b = "" THEN env[op.a] ELSE env[op.b])
         IN  IF sh = NoShape
             THEN [ok |-> FALSE, env |-> env, ran |-> i,
                   why |-> IF i = faultAt THEN "fault" ELSE "operands"]
             ELSE ShapeRun(ops, i + 1, (op.dst :> sh) @@ env, faultAt)

\* A pipeline function called on a frame: whether it returned, the frame it
\* returned, and the library calls it made.
RunProgram(prog, image, faultAt) ==
    LET r == ShapeRun(prog.ops, 1, ("image" :> image), faultAt)
    IN  [ok |-> r.ok,
         out |-> IF r.ok THEN r.env[prog.ret] ELSE NoShape,
         why |-> r.why,
         calls |-> [i \in 1..r.ran |-> prog.ops[i].fn]]

\* The index of the call that masks the colour frame with the edge mask.
CompositeAt(prog) ==
    CHOOSE i \in DOMAIN prog.ops :
        prog.ops[i].stage = "composite" /\ prog.ops[i].fn = "bitwise_and"

HasComposite(prog) ==
    \E i \in DOMAIN prog.ops :
        prog.ops[i].stage = "composite" /\ prog.ops[i].fn = "bitwise_and"

\* The shapes of the two operands the compositing call is given.
CompositeOperands(prog, image) ==
    LET c == CompositeAt(prog)
        r == ShapeRun(SubSeq(prog.ops, 1, c - 1), 1, ("image" :> image), 0)
    IN  IF r.ok THEN <<r.env[prog.ops[c].a], r.env[prog.ops[c].b]>>
        ELSE <<NoShape, NoShape>>

(***************************************************************************)
(* backend/utils.py                                                        *)
(***************************************************************************)
\* size_mb = len(image_bytes) / (1024 * 1024); size_mb > max_size_mb.  The
\* division is by a power of two, so the float comparison is exact.
SizeExceedsOrEqual(size, max_size_mb) == size >= max_size_mb * BytesPerMb

SizeExceeds(size, max_size_mb) == size > max_size_mb * BytesPerMb

Verdict(ok, msg, made) == [ok |-> ok, msg |-> msg, calls |-> made]

\* Opens the image before it looks at the size.
validate_image_open_first(f, max_size_mb) ==
    IF f.kind = "garbage"
    THEN Verdict(FALSE, "Invalid image file", <<"Image.open">>)
    ELSE IF SizeExceeds(f.size, max_size_mb)
    THEN Verdict(FALSE, "File size exceeds maximum", <<"Image.open">>)
    ELSE IF f.w < MinDim \/ f.h < MinDim
    THEN Verdict(FALSE, "Image dimensions too small (minimum 50x50)", <<"Image.open">>)
    ELSE IF f.w > MaxDim \/ f.h > MaxDim
    THEN Verdict(FALSE, "Image dimensions too large (maximum 10000x10000)", <<"Image.open">>)
    ELSE IF f.kind = "corrupt"
    THEN Verdict(FALSE, "Invalid image file", <<"Image.open", "verify">>)
    ELSE Verdict(TRUE, "", <<"Image.open", "verify">>)

validate_image(f, max_size_mb) ==
    IF SizeExceeds(f.size, max_size_mb)
    THEN Verdict(FALSE, "File size exceeds maximum", <<>>)
    ELSE IF f.kind = "garbage"
    THEN Verdict(FALSE, "Invalid image file", <<"Image.open">>)
    ELSE IF f.w < MinDim \/ f.h < MinDim
    THEN Verdict(FALSE, "Image dimensions too small (minimum 50x50)", <<"Image.open">>)
    ELSE IF f.w > MaxDim \/ f.h > MaxDim
    THEN Verdict(FALSE, "Image dimensions too large (maximum 10000x10000)", <<"Image.open">>)
    ELSE IF f.kind = "corrupt"
    THEN Verdict(FALSE, "Invalid image file", <<"Image.open", "verify">>)
    ELSE Verdict(TRUE, "", <<"Image.open", "verify">>)

\* np.array(pil_image): the channels of each PIL mode, RGBA first converted
\* to RGB; then cv2.cvtColor(image_array, cv2.COLOR_RGB2BGR).
ModeChannels(mode) ==
    CASE mode \in {"RGB", "RGBA"} -> 3
      [] mode = "CMYK" -> 4
      [] mode = "LA" -> 2
      [] OTHER -> 1

read_image_from_bytes(f) ==
    CvtColorShape("RGB2BGR", Shape(f.w, f.h, ModeChannels(f.mode)))

\* int(x * scale) for scale = the float num / den: the truncated exact
\* product, or one less where the exact product is an integer and the float
\* product falls just below it (w = 2148: int(w * (1920 / w)) = 1919).
ScaledDim(x, num, den) ==
    IF (x * num) % den = 0
    THEN {(x * num) \div den - 1, (x * num) \div den}
    ELSE {(x * num) \div den}

\* Scales each side by its own ratio instead of the smaller one.
resize_image_stretch(sh, max_width, max_height) ==
    IF sh.w <= max_width /\ sh.h <= max_height THEN {sh}
    ELSE {Shape(IF sh.w > max_width THEN max_width ELSE sh.w,
                IF sh.h > max_height THEN max_height ELSE sh.h, sh.ch)}

\* scale = min(max_width / width, max_height / height, 1.0); the frames
\* resize_image can return.
resize_image(sh, max_width, max_height) ==
    IF sh.w <= max_width /\ sh.h <= max_height THEN {sh}
    ELSE LET byWidth == max_width * sh.h <= max_height * sh.w
             num == IF byWidth THEN max_width ELSE max_height
             den == IF byWidth THEN sh.w ELSE sh.h
         IN  {Shape(nw, nh, sh.ch) :
                 nw \in ScaledDim(sh.w, num, den), nh \in ScaledDim(sh.h, num, den)}

(***************************************************************************)
(* Style dispatch                                                          *)
(***************************************************************************)
\* CartoonConverter.get_available_styles and AICartoonConverter.get_available_styles
ClassicStyles ==
    <<"classic", "smooth", "edge_heavy", "ultra", "pencil_sketch",
      "pencil_sketch_color", "oil_painting">>

AIStyles == <<"cartoon", "anime", "watercolor">>

Registered == {ClassicStyles[i] : i \in DOMAIN ClassicStyles} \cup {AIStyles[i] : i \in DOMAIN AIStyles}

\* The style identifiers a request may carry.
StyleInputs == Registered \cup {"unknown-style"}

\* CartoonConverter.convert: the pipeline it runs for a style.
ConverterProgram(st) ==
    CASE st = "classic" -> classic_cartoon
      [] st = "smooth" -> smooth_cartoon
      [] st = "edge_heavy" -> edge_heavy_cartoon
      [] st = "ultra" -> ultra_quality_cartoon
      [] OTHER -> classic_cartoon

\* AICartoonConverter.apply_neural_style_transfer
AIProgram(st) ==
    CASE st = "anime" -> anime_style
      [] st = "watercolor" -> watercolor_style
      [] OTHER -> simple_gan_style

\* The chain without its 'ultra' entry, as batch_convert_images has it.
SingleAcceptsNoUltra(st) ==
    st \in {"classic", "smooth", "edge_heavy", "pencil_sketch",
            "pencil_sketch_color", "oil_painting", "cartoon", "anime", "watercolor"}

\* convert_image: the styles its if/elif chain takes, and the pipeline of each.
SingleAccepts(st) ==
    st \in {"classic", "smooth", "edge_heavy", "ultra", "pencil_sketch",
            "pencil_sketch_color", "oil_painting", "cartoon", "anime", "watercolor"}

SingleProgram(st) ==
    CASE st \in {"classic", "smooth", "edge_heavy", "ultra"} -> ConverterProgram(st)
      [] st = "pencil_sketch" -> pencil_sketch_gray
      [] st = "pencil_sketch_color" -> pencil_sketch_color
      [] st = "oil_painting" -> oil_painting
      [] OTHER -> AIProgram(st)

\* batch_convert_images: the pipeline of each style.
BatchProgram(st) ==
    IF st \in {"classic", "smooth", "edge_heavy"} THEN ConverterProgram(st)
    ELSE AIProgram(st)

(***************************************************************************)
(* Failures of the environment: a library call may raise (a truncated      *)
(* file, no memory, no writer for the extension).  at names the step that  *)
(* raises, op the index of the pipeline call when at = "stage".            *)
(***************************************************************************)
Fault(at, op) == [at |-> at, op |-> op]

NoFault == Fault("none", 0)

SingleFaults(prog) ==
    {NoFault, Fault("decode", 0), Fault("resize", 0), Fault("encode", 0)}
        \cup {Fault("stage", i) : i \in {1, Len(prog.ops)}}

BatchFaults(prog) ==
    {NoFault, Fault("decode", 0), Fault("write", 0)}
        \cup {Fault("stage", i) : i \in {1, Len(prog.ops)}}

NoFrames == [inn |-> NoShape, out |-> NoShape, why |-> "none"]

Frames(image, run) == [inn |-> image, out |-> run.out, why |-> run.why]

(***************************************************************************)
(* convert_image                                                           *)
(***************************************************************************)
Answer(status, detail, made, fr) ==
    [response |-> [status |-> status, detail |-> detail], calls |-> made, frames |-> fr,
     raised |-> [type |-> "none", status |-> 0]]

\* Every exception answered as a processing error.
except_all(exc, detail) == [status |-> 500, detail |-> "Error processing image"]

\* except HTTPException: raise / except Exception as e: raise HTTPException(500, ...)
except_clauses(exc, detail) ==
    IF exc.type = "HTTPException" THEN [status |-> exc.status, detail |-> detail]
    ELSE [status |-> 500, detail |-> "Error processing image"]

\* What the handler answers when its try block raised exc.
Caught(exc, detail, made, fr) ==
    [response |-> except_clauses(exc, detail), calls |-> made, frames |-> fr, raised |-> exc]

convert_image(f, st, resize_output, fault, resized) ==
    IF ~allowed_file(f)
    THEN Answer(400, "Invalid file type", <<"allowed_file">>, NoFrames)
    ELSE
    LET v == validate_image(f, MaxSizeMb)
        c1 == <<"allowed_file", "file.read", "validate_image">> \o v.calls
        decoded == read_image_from_bytes(f)
        c2 == c1 \o <<"read_image_from_bytes">>
        image == IF resize_output THEN resized ELSE decoded
        c3 == IF resize_output THEN c2 \o <<"resize_image">> ELSE c2
        run == RunProgram(SingleProgram(st), image, IF fault.at = "stage" THEN fault.op ELSE 0)
        c4 == c3 \o run.calls
        Exception == [type |-> "Exception", status |-> 0]
        HTTPException(status) == [type |-> "HTTPException", status |-> status]
    IN  IF ~v.ok
        THEN Caught(HTTPException(400), v.msg, c1, NoFrames)
        ELSE IF fault.at = "decode" \/ decoded = NoShape
        THEN Caught(Exception, "", c2, NoFrames)
        ELSE IF resize_output /\ fault.at = "resize"
        THEN Caught(Exception, "", c3, NoFrames)
        ELSE IF ~SingleAccepts(st)
        THEN Caught(HTTPException(400), "Unknown style", c3, NoFrames)
        ELSE IF ~run.ok
        THEN Caught(Exception, "", c4, Frames(image, run))
        ELSE IF fault.at = "encode" \/ run.out.ch # 3
        THEN Caught(Exception, "", c4 \o <<"image_to_bytes">>, Frames(image, run))
        ELSE Answer(200, "image/jpeg", c4 \o <<"image_to_bytes">>,
                    Frames(image, run))

(***************************************************************************)
(* batch_convert_images: one turn of its loop                              *)
(***************************************************************************)
\* escaped: the exception left the loop body instead of being recorded.
ItemResult(status, message, made, fr) ==
    [result |-> [status |-> status, message |-> message], calls |-> made, frames |-> fr,
     escaped |-> FALSE]

\* The loop body without its try/except: what raises leaves the handler.
batch_item_no_try(f, st, fault) ==
    LET image == read_image_from_bytes(f)
        run == RunProgram(BatchProgram(st), image, IF fault.at = "stage" THEN fault.op ELSE 0)
        made == <<"allowed_file", "file.read", "validate_image", "Image.open", "verify",
                  "generate_unique_filename", "read_image_from_bytes">> \o run.calls
    IN  IF ~allowed_file(f)
        THEN ItemResult("error", "Invalid file type", <<"allowed_file">>, NoFrames)
        ELSE IF ~validate_image(f, MaxSizeMb).ok
        THEN ItemResult("error", validate_image(f, MaxSizeMb).msg,
                        <<"allowed_file", "file.read", "validate_image">>
                            \o validate_image(f, MaxSizeMb).calls, NoFrames)
        ELSE IF fault.at \in {"decode", "stage", "write"} \/ image = NoShape \/ ~run.ok
        THEN [ItemResult("error", "exception", made, NoFrames) EXCEPT !.escaped = TRUE]
        ELSE ItemResult("success", st, made \o <<"imwrite">>, Frames(image, run))

batch_item(f, st, fault) ==
    IF ~allowed_file(f)
    THEN ItemResult("error", "Invalid file type", <<"allowed_file">>, NoFrames)
    ELSE
    LET v == validate_image(f, MaxSizeMb)
        c1 == <<"allowed_file", "file.read", "validate_image">> \o v.calls
        image == read_image_from_bytes(f)
        c2 == c1 \o <<"generate_unique_filename", "read_image_from_bytes">>
        run == RunProgram(BatchProgram(st), image, IF fault.at = "stage" THEN fault.op ELSE 0)
        c3 == c2 \o run.calls
    IN  IF ~v.ok
        THEN ItemResult("error", v.msg, c1, NoFrames)
        ELSE IF fault.at = "decode" \/ image = NoShape
        THEN ItemResult("error", "exception", c2, NoFrames)
        ELSE IF ~run.ok
        THEN ItemResult("error", "exception", c3, Frames(image, run))
        ELSE IF fault.at = "write"
        THEN ItemResult("error", "exception", c3 \o <<"imwrite">>,
                        Frames(image, run))
        ELSE ItemResult("success", st, c3 \o <<"imwrite">>,
                        Frames(image, run))

\* if len(files) > 10
BatchTooManyOff(n) == n > MaxBatchFiles + 1

BatchTooMany(n) == n > MaxBatchFiles

\* The frames CartoonConverter.convert is called on directly (the 200x200
\* frame of test_installation.py among them).
LibFrames == {Shape(200, 200, 3), Shape(MinDim, MinDim, 3), Shape(640, 480, 3)}

(***************************************************************************)
(* The request handlers as a state machine.  The handlers keep nothing     *)
(* between requests, so a behaviour is one request, from "idle" to "done". *)
(***************************************************************************)
Reply(status, detail, total, successful, failed) ==
    [status |-> status, detail |-> detail, total |-> total,
     successful |-> successful, failed |-> failed]

NoReply == Reply(0, "", 0, 0, 0)

NoRz == [inn |-> NoShape, out |-> NoShape]

NoPx == [phase |-> "none"]

NoQz == [phase |-> "none"]

\* A side run that has not started.
NoRun == [phase |-> "none"]

NoException == [type |-> "none", status |-> 0]

Init ==
    /\ pc = "idle"
    /\ endpoint = "none"
    /\ style = ""
    /\ file = NoFile
    /\ calls = <<>>
    /\ response = NoReply
    /\ nfiles = 0
    /\ results = <<>>
    /\ frames = NoFrames
    /\ rz = NoRz
    /\ px = NoPx
    /\ qz = NoQz
    /\ raised = NoException
    /\ sb = NoRun
    /\ en = NoRun
    /\ cc = NoRun
    /\ sv = NoRun

\* POST /api/convert
ConvertImage ==
    /\ pc = "idle"
    /\ \E f \in Uploads, st \in StyleInputs, resize_output \in BOOLEAN :
         \E fault \in SingleFaults(SingleProgram(st)) :
           \E resized \in resize_image(read_image_from_bytes(f), MaxWidth, MaxHeight) :
             LET a == convert_image(f, st, resize_output, fault, resized)
             IN  /\ endpoint' = "convert"
                 /\ style' = st
                 /\ file' = f
                 /\ calls' = a.calls
                 /\ response' = Reply(a.response.status, a.response.detail, 0, 0, 0)
                 /\ frames' = a.frames
                 /\ raised' = a.raised
    /\ pc' = "done"
    /\ UNCHANGED <<nfiles, results, rz, px, qz, side>>

\* POST /api/batch-convert, up to the loop
BatchStart ==
    /\ pc = "idle"
    /\ \E n \in 0..(MaxBatchFiles + 1), st \in StyleInputs :
         /\ endpoint' = "batch"
         /\ style' = st
         /\ nfiles' = n
         /\ results' = <<>>
         /\ file' = NoFile
         /\ calls' = <<>>
         /\ frames' = NoFrames
         /\ IF BatchTooMany(n)
            THEN /\ response' = Reply(400, "Maximum 10 files allowed in batch processing", 0, 0, 0)
                 /\ pc' = "done"
            ELSE /\ response' = NoReply
                 /\ pc' = "batch"
    /\ UNCHANGED <<raised, rz, px, qz, side>>

\* The entry put at the head of the list.
results_insert(rs, entry) == <<entry>> \o rs

\* results.append({"filename": file.filename, ...})
results_append(rs, entry) == Append(rs, entry)

\* One turn of "for file in files": the files are taken in the order given,
\* one per turn, and the entry carries the name of the turn's file (here its
\* place in the input).
BatchItem ==
    /\ pc = "batch"
    /\ Len(results) < nfiles
    /\ \E f \in (IF Len(results) < MaxVaried THEN BatchUploads ELSE {SoundUpload}) :
         \E fault \in (IF Len(results) < MaxVaried THEN BatchFaults(BatchProgram(style))
                       ELSE {NoFault}) :
           LET r == batch_item(f, style, fault)
           IN  /\ file' = f
               /\ calls' = r.calls
               /\ frames' = r.frames
               /\ IF r.escaped
                  THEN /\ response' = Reply(500, "Internal server error", 0, 0, 0)
                       /\ pc' = "done"
                       /\ results' = results
                  ELSE /\ results' = results_append(results,
                                          [filename |-> Len(results) + 1] @@ r.result)
                       /\ UNCHANGED <<pc, response>>
    /\ UNCHANGED <<endpoint, style, nfiles, raised, rz, px, qz, side>>

Count(rs, status) == Cardinality({i \in DOMAIN rs : rs[i].status = status})

\* The return after the loop
BatchReturn ==
    /\ pc = "batch"
    /\ Len(results) = nfiles
    /\ response' = Reply(200, "batch", nfiles, Count(results, "success"), Count(results, "error"))
    /\ pc' = "done"
    /\ UNCHANGED <<endpoint, style, file, calls, nfiles, results, frames, raised, rz, px, qz, side>>

\* CartoonConverter.convert called directly, as test_installation.py does
LibConvert ==
    /\ pc = "idle"
    /\ \E st \in StyleInputs, image \in LibFrames :
         LET run == RunProgram(ConverterProgram(st), image, 0)
         IN  /\ endpoint' = "library"
             /\ style' = st
             /\ file' = NoFile
             /\ calls' = run.calls
             /\ response' = Reply(0, IF run.ok THEN "returned" ELSE "raised", 0, 0, 0)
             /\ frames' = Frames(image, run)
    /\ pc' = "done"
    /\ UNCHANGED <<nfiles, results, raised, rz, px, qz, side>>

Next == ConvertImage \/ BatchStart \/ BatchItem \/ BatchReturn \/ LibConvert

Spec == Init /\ [][Next]_vars

(***************************************************************************)
(* resize_image on its own, over a sweep of frame sizes                    *)
(***************************************************************************)
ResizeDims ==
    {MinDim, MaxHeight, MaxHeight + 1, MaxWidth, MaxWidth + 1, 2148, 8487, MaxDim}
        \cup {MinDim + 977 * i : i \in 1..ResizeSamples}

ResizeImage ==
    /\ rz = NoRz
    /\ \E w \in ResizeDims, h \in ResizeDims :
         \E out \in resize_image(Shape(w, h, 3), MaxWidth, MaxHeight) :
           rz' = [inn |-> Shape(w, h, 3), out |-> out]
    /\ UNCHANGED <<reqVars, px, qz, side>>

SpecResize == Init /\ [][ResizeImage]_vars

(***************************************************************************)
(* _quantize_colors at the pixel level.  A frame is held as the count of   *)
(* its pixels per colour; a colour is a grey level, equal in the three     *)
(* channels, so the distance of two colours is ordered as the distance of  *)
(* their levels.  A cluster centre is held as the float sum cv2.kmeans     *)
(* accumulates and the counter it divides by.                              *)
(***************************************************************************)
Levels == {0, 1, 100, 200, 255}

\* The smallest frame validate_image lets through.
NPix == MinDim * MinDim

\* k of the call sites (6, 12, 14, 16), the default (8) and small values.
ClusterCounts == {1, 2, 3, 6, 8, 12, 14, 16}

Abs(x) == IF x < 0 THEN 0 - x ELSE x

Pow2(e) == 2 ^ e

RECURSIVE Pow2Mod(_, _)
Pow2Mod(e, n) == IF e = 0 THEN 1 % n ELSE (2 * Pow2Mod(e - 1, n)) % n

\* The least p with 2^p >= x.
CeilLog2(x) == CHOOSE p \in 0..24 : Pow2(p) >= x /\ (p = 0 \/ Pow2(p - 1) < x)

Sorted(P) ==
    CHOOSE q \in [1..Cardinality(P) -> P] :
        \A i, j \in 1..Cardinality(P) : i < j => q[i] < q[j]

Splits(m) ==
    { [i \in 1..m |-> IF i = m THEN NPix - (m - 1) ELSE 1],
      [i \in 1..m |-> IF i = 1 THEN NPix - (m - 1) ELSE 1],
      [i \in 1..m |-> (NPix \div m) + (IF i <= NPix % m THEN 1 ELSE 0)] }

Hist(P, split) ==
    [c \in Levels |->
        IF c \in P THEN split[CHOOSE i \in 1..Cardinality(P) : Sorted(P)[i] = c] ELSE 0]

QuantFrames ==
    UNION { {Hist(P, s) : s \in Splits(Cardinality(P))} :
            P \in {Q \in SUBSET Levels : Cardinality(Q) \in 1..MaxColours} }

Present(hist) == {c \in Levels : hist[c] > 0}

RECURSIVE SumOver(_, _)
SumOver(f, S) ==
    IF S = {} THEN 0
    ELSE LET c == CHOOSE x \in S : TRUE IN f[c] + SumOver(f, S \ {c})

\* counters[k] and the accumulated centre of one cluster
Counter(m) == SumOver(m, Levels)

Accum(m) == SumOver([c \in Levels |-> c * m[c]], Levels)

Centre(s, n) == [s |-> s, n |-> n]

\* normL2Sqr(sample, center), as an order: both sides scaled to one counter
Farther(c, a, d, b) == Abs(c * a.n - a.s) * b.n > Abs(d * b.n - b.s) * a.n

\* KMeansDistanceComputer: the first centre at the least distance
Nearest(c, centers) ==
    CHOOSE j \in DOMAIN centers :
        \A i \in DOMAIN centers :
            /\ i < j => Farther(c, centers[i], c, centers[j])
            /\ i > j => ~Farther(c, centers[j], c, centers[i])

AssignLabels(hist, centers) ==
    LET label == [c \in Levels |-> Nearest(c, centers)]
    IN  [j \in DOMAIN centers |->
            [c \in Levels |-> IF hist[c] > 0 /\ label[c] = j THEN hist[c] ELSE 0]]

\* generateRandomCenter draws inside the bounding box of the samples; the
\* draws followed here are level values of the box.
InitCenters(hist, k) ==
    LET box == {c \in Levels : \E lo, hi \in Present(hist) : lo <= c /\ c <= hi}
        P   == Sorted(Present(hist))
        n   == Cardinality(Present(hist))
    IN  IF k <= 2
        THEN {[j \in 1..k |-> Centre(f[j], 1)] : f \in [1..k -> box]}
        ELSE {[j \in 1..k |-> Centre(x, 1)] : x \in box}
                 \cup {[j \in 1..k |-> Centre(P[((j - 1) % n) + 1], 1)],
                       [j \in 1..k |-> Centre(P[n - ((j - 1) % n)], 1)]}

\* "if some cluster appeared to be empty": move the farthest point of the
\* biggest cluster into it; the biggest cluster's old centre is overwritten
\* by its mean.  Of points equally far the scan keeps the last; here the
\* brightest.
RECURSIVE FillEmpty(_, _)
FillEmpty(st, j) ==
    IF j > Len(st.member) THEN st
    ELSE IF Counter(st.member[j]) # 0 THEN FillEmpty(st, j + 1)
    ELSE
      LET K == DOMAIN st.member
          n(a) == Counter(st.member[a])
          max_k == CHOOSE a \in K :
                      \A b \in K : (b < a => n(b) < n(a)) /\ (b > a => n(b) <= n(a))
          base == Centre(Accum(st.member[max_k]), n(max_k))
          cand == {c \in Levels : st.member[max_k][c] > 0}
          farthest == CHOOSE c \in cand :
                         \A d \in cand :
                            \/ Farther(c, base, d, base)
                            \/ (~Farther(d, base, c, base) /\ d <= c)
      IN  FillEmpty([member |-> [st.member EXCEPT ![max_k][farthest] = @ - 1,
                                                  ![j][farthest] = @ + 1],
                     old |-> [st.old EXCEPT ![max_k] = base]], j + 1)

\* max_center_shift <= criteria.epsilon, epsilon squared: three equal
\* channels move by t each, 3 t^2 <= 0.04, that is |t| <= 1 / 8.66.
Settled(new, old) ==
    \A j \in DOMAIN new :
        Abs(new[j].s * old[j].n - old[j].s * new[j].n)
            <= (new[j].n * old[j].n * 100) \div 866

\* The centres of one iteration: empty clusters filled, then every
\* accumulated centre paired with its counter.
ComputeCenters(centers, member) ==
    {[centers |-> [j \in DOMAIN centers |->
                      Centre(Accum(st.member[j]), Counter(st.member[j]))],
      labels |-> st.member, old |-> st.old] :
     st \in {FillEmpty([member |-> member, old |-> centers], 1)}}

\* np.uint8 of the float32 centre fl(s * fl(1 / n)): truncation.  When n
\* divides s the quotient v is reached only if the rounded product is not
\* below v: with M the 24-bit mantissa of fl(1/n) and delta = M n - 2^(23+p),
\* the product is v + v delta / 2^(23+p), and it rounds below v when it is
\* more than half a float step under v.
Uint8(c) ==
    LET v == c.s \div c.n
        p == CeilLog2(c.n)
        r == Pow2Mod(23 + p, c.n)
        delta == IF 2 * r < c.n THEN 0 - r ELSE c.n - r
    IN  IF c.s % c.n # 0 \/ v = 0 \/ Pow2(p) = c.n \/ delta >= 0 THEN v
        ELSE IF v * (0 - delta) * 4 > Pow2(p + CeilLog2(v)) THEN v - 1 ELSE v

\* centers = np.uint8(centers); quantized = centers[labels.flatten()]:
\* the pixels of one colour under one label, and what they become.
Requantized(centers, labels) ==
    {[pixel |-> e[2], label |-> e[1], out |-> centers[e[1]], count |-> labels[e[1]][e[2]]] :
     e \in {d \in (DOMAIN centers) \X Levels : labels[d[1]][d[2]] > 0}}

\* _quantize_colors enters cv2.kmeans: the centres of one attempt are drawn
\* and the labels assigned to them.  (The attempts differ only in the draw,
\* and the best of them is one of them.)
KmeansStart ==
    /\ qz = NoQz
    /\ \E hist \in QuantFrames, k \in ClusterCounts :
         \E init \in InitCenters(hist, k) :
           \E labels \in {AssignLabels(hist, init)} :
             qz' = [phase |-> "kmeans", image |-> hist, k |-> k, iter |-> 1,
                    centers |-> init, labels |-> labels, quantized |-> {}]
    /\ UNCHANGED <<reqVars, rz, px, side>>

\* One iteration of cv2.kmeans.  The last iteration does not assign the
\* labels again.
KmeansIterate ==
    /\ qz.phase = "kmeans"
    /\ \E c \in ComputeCenters(qz.centers, qz.labels) :
         IF qz.iter + 1 = KmeansMaxCount \/ Settled(c.centers, c.old)
         THEN qz' = [qz EXCEPT !.phase = "clustered", !.centers = c.centers,
                               !.labels = c.labels]
         ELSE \E labels \in {AssignLabels(qz.image, c.centers)} :
                qz' = [qz EXCEPT !.iter = @ + 1, !.centers = c.centers,
                                 !.labels = labels]
    /\ UNCHANGED <<reqVars, rz, px, side>>

\* The rest of _quantize_colors
QuantizeColors ==
    /\ qz.phase = "clustered"
    /\ \E centers \in {[j \in 1..qz.k |-> Uint8(qz.centers[j])]} :
         qz' = [qz EXCEPT !.phase = "done", !.centers = centers,
                          !.quantized = Requantized(centers, qz.labels)]
    /\ UNCHANGED <<reqVars, rz, px, side>>

NextQuant == KmeansStart \/ KmeansIterate \/ QuantizeColors

SpecQuant == Init /\ [][NextQuant]_vars

(***************************************************************************)
(* The calls from the compositing on, at the pixel level, on a frame of    *)
(* one row.  A pixel is one channel value: bitwise_and, filter2D,          *)
(* GaussianBlur and addWeighted work on each channel by itself;            *)
(* bilateralFilter and the Lab conversions mix the channels and are        *)
(* followed for grey frames, where the three channels are equal.  Borders  *)
(* are BORDER_REFLECT_101, so the rows above and below the one row are     *)
(* that row.                                                               *)
(***************************************************************************)
PixelLevels == {0, 20, 200}

MaskLevels == {0, 255}

Rows(S) == [1..RowLen -> S]

\* borderInterpolate, BORDER_REFLECT_101
Reflect101(i) ==
    LET period == 2 * (RowLen - 1)
        m == (i - 1) % period
    IN  IF m < RowLen THEN m + 1 ELSE period - m + 1

wrap_cast(x) == x % 256

\* saturate_cast<uchar>
saturate_cast(x) == IF x < 0 THEN 0 ELSE IF x > 255 THEN 255 ELSE x

\* cvRound of num / den, den > 0: to the nearest, halves to even
RoundDiv(num, den) ==
    LET q == num \div den
        r == num % den
    IN  IF 2 * r < den THEN q
        ELSE IF 2 * r > den THEN q + 1
        ELSE IF q % 2 = 0 THEN q ELSE q + 1

RECURSIVE BitAnd(_, _, _)
BitAnd(x, y, bits) ==
    IF bits = 0 THEN 0
    ELSE ((x % 2) * (y % 2)) + 2 * BitAnd(x \div 2, y \div 2, bits - 1)

\* cv2.bitwise_and
bitwise_and(a, b) == [i \in 1..RowLen |-> BitAnd(a[i], b[i], 8)]

\* cv2.filter2D with [[0,-1,0],[-1,5,-1],[0,-1,0]]
filter2D(a) ==
    [i \in 1..RowLen |->
        saturate_cast(5 * a[i] - a[i] - a[i] - a[Reflect101(i - 1)] - a[Reflect101(i + 1)])]

\* exp(-x^2 / (2 sigma^2)) in thousandths, sigma = 2.0, for the taps 0..6 of
\* the 13-tap kernel getGaussianKernel builds for ksize (0, 0)
GaussianTab ==
    <<1000, 882, 607, 325, 135, 44, 11>>

RECURSIVE SumTaps(_, _, _)
SumTaps(f, lo, hi) == IF lo > hi THEN 0 ELSE f[lo] + SumTaps(f, lo + 1, hi)

\* cv2.GaussianBlur(cartoon, (0, 0), 2.0)
GaussianBlur(a) ==
    LET w == [x \in -6..6 |-> GaussianTab[Abs(x) + 1]]
    IN  [i \in 1..RowLen |->
            RoundDiv(SumTaps([x \in -6..6 |-> w[x] * a[Reflect101(i + x)]], -6, 6),
                     SumTaps(w, -6, 6))]

\* cv2.addWeighted(a, 1.5, b, -0.5, 0)
addWeighted(a, b) ==
    [i \in 1..RowLen |-> saturate_cast(RoundDiv(3 * a[i] - b[i], 2))]

\* exp(-(3 d)^2 / (2 sigmaColor^2)) in thousandths, sigmaColor = 50, for two
\* grey pixels d levels apart (the colour distance sums the three channels);
\* beyond the table the weight is under a thousandth.
ColorWeightTab ==
    <<1000, 998, 993, 984, 972, 956, 937, 916, 891, 864, 835, 804, 772, 738, 703, 667,
      631, 594, 558, 522, 487, 452, 418, 386, 355, 325, 296, 269, 244, 220, 198, 177,
      158, 141, 125, 110, 97, 85, 74, 65, 56, 49, 42, 36, 31, 26, 22, 19,
      16, 13, 11, 9, 8, 6, 5, 4, 4, 3, 2, 2, 2, 1, 1, 1,
      1>>

ColorWeight(d) == IF d < Len(ColorWeightTab) THEN ColorWeightTab[d + 1] ELSE 0

\* The space weights of d = 5, sigmaSpace = 50, in thousandths, summed over
\* the rows of the radius-2 disc for each column offset 0, 1, 2.
SpaceWeightTab ==
    <<4998, 3000, 999>>

\* cv2.bilateralFilter(result, d=5, sigmaColor=50, sigmaSpace=50)
bilateralFilter(a) ==
    [i \in 1..RowLen |->
        LET w == [x \in -2..2 |->
                    (SpaceWeightTab[Abs(x) + 1]
                        * ColorWeight(Abs(a[Reflect101(i + x)] - a[i]))) \div 1000]
        IN  RoundDiv(SumTaps([x \in -2..2 |-> w[x] * a[Reflect101(i + x)]], -2, 2),
                     SumTaps(w, -2, 2))]

\* cv2.COLOR_BGR2LAB of a grey pixel: its 8-bit L (a and b are 128), by the CIE
\* formula on the sRGB curve, indexed by the level plus one.
LabLTab ==
    <<0, 1, 1, 2, 3, 3, 4, 5, 6, 6, 7, 8, 8, 9, 10, 11,
      12, 13, 14, 15, 16, 17, 18, 20, 21, 22, 24, 25, 26, 27, 29, 30,
      31, 32, 34, 35, 36, 37, 39, 40, 41, 42, 44, 45, 46, 47, 48, 49,
      51, 52, 53, 54, 55, 57, 58, 59, 60, 61, 62, 63, 65, 66, 67, 68,
      69, 70, 71, 72, 74, 75, 76, 77, 78, 79, 80, 81, 82, 84, 85, 86,
      87, 88, 89, 90, 91, 92, 93, 94, 95, 96, 98, 99, 100, 101, 102, 103,
      104, 105, 106, 107, 108, 109, 110, 111, 112, 113, 114, 115, 116, 117, 118, 119,
      120, 121, 123, 124, 125, 126, 127, 128, 129, 130, 131, 132, 133, 134, 135, 136,
      137, 138, 139, 140, 141, 142, 143, 144, 145, 146, 147, 148, 149, 150, 151, 151,
      152, 153, 154, 155, 156, 157, 158, 159, 160, 161, 162, 163, 164, 165, 166, 167,
      168, 169, 170, 171, 172, 173, 174, 175, 176, 177, 178, 178, 179, 180, 181, 182,
      183, 184, 185, 186, 187, 188, 189, 190, 191, 192, 193, 193, 194, 195, 196, 197,
      198, 199, 200, 201, 202, 203, 204, 205, 206, 206, 207, 208, 209, 210, 211, 212,
      213, 214, 215, 216, 217, 217, 218, 219, 220, 221, 222, 223, 224, 225, 226, 227,
      227, 228, 229, 230, 231, 232, 233, 234, 235, 235, 236, 237, 238, 239, 240, 241,
      242, 243, 244, 244, 245, 246, 247, 248, 249, 250, 251, 251, 252, 253, 254, 255>>

\* cv2.COLOR_LAB2BGR of (L, 128, 128): the grey level, indexed by L plus one.
LabGrayTab ==
    <<0, 1, 3, 4, 6, 7, 9, 10, 11, 13, 14, 15, 16, 17, 18, 19,
      20, 21, 22, 22, 23, 24, 25, 26, 26, 27, 28, 29, 29, 30, 31, 32,
      33, 33, 34, 35, 36, 37, 37, 38, 39, 40, 41, 42, 42, 43, 44, 45,
      46, 47, 47, 48, 49, 50, 51, 52, 53, 53, 54, 55, 56, 57, 58, 59,
      60, 60, 61, 62, 63, 64, 65, 66, 67, 67, 68, 69, 70, 71, 72, 73,
      74, 75, 76, 77, 77, 78, 79, 80, 81, 82, 83, 84, 85, 86, 87, 88,
      89, 90, 90, 91, 92, 93, 94, 95, 96, 97, 98, 99, 100, 101, 102, 103,
      104, 105, 106, 107, 108, 109, 110, 111, 112, 113, 114, 114, 115, 116, 117, 118,
      119, 120, 121, 122, 123, 124, 125, 126, 127, 128, 129, 130, 131, 132, 133, 134,
      135, 136, 137, 138, 139, 140, 141, 143, 144, 145, 146, 147, 148, 149, 150, 151,
      152, 153, 154, 155, 156, 157, 158, 159, 160, 161, 162, 163, 164, 165, 166, 167,
      168, 169, 171, 172, 173, 174, 175, 176, 177, 178, 179, 180, 181, 182, 183, 184,
      185, 186, 188, 189, 190, 191, 192, 193, 194, 195, 196, 197, 198, 199, 200, 202,
      203, 204, 205, 206, 207, 208, 209, 210, 211, 213, 214, 215, 216, 217, 218, 219,
      220, 221, 222, 224, 225, 226, 227, 228, 229, 230, 231, 232, 234, 235, 236, 237,
      238, 239, 240, 241, 243, 244, 245, 246, 247, 248, 249, 250, 252, 253, 254, 255>>

\* cv2.createCLAHE(clipLimit=2.0, tileGridSize=(8, 8)).apply on the L plane,
\* with the row as the one tile: the histogram is clipped, the excess spread
\* over the bins, and the cumulative sum scaled to 0..255.
clahe(a) ==
    LET area == RowLen
        clip == IF (2 * area) \div 256 > 1 THEN (2 * area) \div 256 ELSE 1
        count == [v \in Range(a) |-> Cardinality({i \in 1..RowLen : a[i] = v})]
        excess == SumOver([v \in Range(a) |-> IF count[v] > clip THEN count[v] - clip ELSE 0],
                          Range(a))
        batch == excess \div 256
        residual == excess - batch * 256
        step == IF residual = 0 THEN 256
                ELSE IF 256 \div residual > 1 THEN 256 \div residual ELSE 1
        cum(v) == SumOver([u \in Range(a) |->
                              IF u > v THEN 0
                              ELSE IF count[u] > clip THEN clip ELSE count[u]], Range(a))
                    + (v + 1) * batch
                    + Cardinality({n \in 0..(residual - 1) : n * step <= v})
    IN  [i \in 1..RowLen |-> saturate_cast(RoundDiv(cum(a[i]) * 255, area))]

\* cv2.cvtColor of one row
cvtColor(code, a) ==
    CASE code \in {"GRAY2BGR", "GRAY2RGB", "RGB2BGR", "BGR2RGB"} -> a
      [] code = "BGR2LAB" -> [i \in 1..RowLen |-> LabLTab[a[i] + 1]]
      [] code = "LAB2BGR" -> [i \in 1..RowLen |-> LabGrayTab[a[i] + 1]]

\* What one call of a pipeline's tail makes of the rows it reads.
PixelOf(op, a, b) ==
    CASE op.fn = "cvtColor" -> cvtColor(op.par, a)
      [] op.fn = "bitwise_and" -> bitwise_and(a, b)
      [] op.fn = "filter2D" -> filter2D(a)
      [] op.fn = "GaussianBlur" -> GaussianBlur(a)
      [] op.fn = "addWeighted" -> addWeighted(a, b)
      [] op.fn = "clahe" -> clahe(a)
      [] op.fn = "bilateralFilter" -> bilateralFilter(a)

CompositeStyles == {"classic", "smooth", "edge_heavy", "ultra", "anime"}

PixelProgram(st) == IF st \in Range(AIStyles) THEN AIProgram(st) ELSE ConverterProgram(st)

\* The pipeline has reached the call that turns the edge mask into a frame
\* of three channels: the colour frame and the mask are whatever the calls
\* before made of the image.
PixelStart ==
    /\ px = NoPx
    /\ \E st \in CompositeStyles, colour \in Rows(PixelLevels), mask \in Rows(MaskLevels) :
         LET prog == PixelProgram(st)
             c == CompositeAt(prog)
         IN  px' = [phase |-> "run", style |-> st, at |-> c - 1, mask |-> mask,
                    env |-> (prog.ops[c].a :> colour) @@ (prog.ops[c - 1].a :> mask),
                    out |-> <<>>]
    /\ UNCHANGED <<reqVars, rz, qz, side>>

\* The next call of the pipeline
PixelStep ==
    /\ px.phase = "run"
    /\ px.at <= Len(PixelProgram(px.style).ops)
    /\ LET op == PixelProgram(px.style).ops[px.at]
       IN  \E row \in {PixelOf(op, px.env[op.a], IF op.b = "" THEN <<>> ELSE px.env[op.b])} :
             px' = [px EXCEPT !.at = @ + 1, !.env = (op.dst :> row) @@ px.env]
    /\ UNCHANGED <<reqVars, rz, qz, side>>

\* The pipeline's return
PixelReturn ==
    /\ px.phase = "run"
    /\ px.at > Len(PixelProgram(px.style).ops)
    /\ px' = [px EXCEPT !.phase = "done", !.out = px.env[PixelProgram(px.style).ret]]
    /\ UNCHANGED <<reqVars, rz, qz, side>>

NextPixel == PixelStart \/ PixelStep \/ PixelReturn

SpecPixel == Init /\ [][NextPixel]_vars

(***************************************************************************)
(* A pipeline run on a frame whose rows are all equal and whose pixels are *)
(* grey (B = G = R), one row of it kept.  The edge stage of each style is   *)
(* computed by value, a smoothed frame it starts from being any grey row;  *)
(* the other calls are run for their shapes only.                          *)
(***************************************************************************)
\* cv2.Sobel(gray, cv2.CV_64F, dx, dy, ksize=3), BORDER_REFLECT_101.  With
\* equal rows the vertical smoothing [1 2 1] sums to 4 and the vertical
\* derivative is 0.
Sobel(par, a) ==
    IF par = "1,0,3"
    THEN [i \in 1..RowLen |-> 4 * (a[Reflect101(i + 1)] - a[Reflect101(i + RowLen + RowLen - 3)])]
    ELSE [i \in 1..RowLen |-> 0]

\* np.sqrt(sobelx**2 + sobely**2): exact here, sobely being 0.
magnitude(x, y) ==
    [i \in 1..RowLen |->
        CHOOSE r \in 0..(4 * 255) :
            /\ r * r <= x[i] * x[i] + y[i] * y[i]
            /\ (r + 1) * (r + 1) > x[i] * x[i] + y[i] * y[i]]

MaxOf(a) == CHOOSE m \in Range(a) : \A i \in DOMAIN a : a[i] <= m

\* np.uint8(255 * sobel / np.max(sobel)); nan is the byte the cast of a NaN
\* gives: the cast is undefined, the build decides.  ok: no step of it was 0 / 0.
normalize(a, nan) ==
    IF MaxOf(a) # 0
    THEN [ok |-> TRUE, row |-> [i \in 1..RowLen |-> (255 * a[i]) \div MaxOf(a)]]
    ELSE [ok |-> FALSE, row |-> [i \in 1..RowLen |-> nan]]

\* cv2.threshold(src, 50, 255, cv2.THRESH_BINARY_INV)
threshold(a) == [i \in 1..RowLen |-> IF a[i] > 50 THEN 0 ELSE 255]

\* borderInterpolate, BORDER_REPLICATE
Replicate(i) == IF i < 1 THEN 1 ELSE IF i > RowLen THEN RowLen ELSE i

\* cv2.medianBlur(gray, ksize), BORDER_REPLICATE.  With equal rows each column
\* of the ksize x ksize window holds one value ksize times, so the median of
\* the window is the median of its ksize columns.
medianBlur(par, a) ==
    LET h == CASE par = "5" -> 2 [] par = "7" -> 3
        win(i) == [x \in -h..h |-> a[Replicate(i + x)]]
    IN  [i \in 1..RowLen |->
            CHOOSE v \in Range(win(i)) :
                /\ Cardinality({x \in -h..h : win(i)[x] <= v}) >= h + 1
                /\ Cardinality({x \in -h..h : win(i)[x] >= v}) >= h + 1]

\* cv2.adaptiveThreshold(gray, 255, method, cv2.THRESH_BINARY, blockSize, C):
\* 255 where the pixel is above the mean of its block less C, else 0.  The
\* mean is the box mean (MEAN_C) or the sigma = 2.0 Gaussian mean of the
\* 11-pixel block (GAUSSIAN_C), BORDER_REPLICATE.
adaptiveThreshold(par, a) ==
    LET h == IF par = "GAUSSIAN,BINARY,11,2" THEN 5 ELSE 4
        C == IF par = "MEAN,BINARY,9,5" THEN 5 ELSE 2
        w == [x \in -h..h |-> IF par = "GAUSSIAN,BINARY,11,2" THEN GaussianTab[Abs(x) + 1] ELSE 1]
        mean(i) == RoundDiv(SumTaps([x \in -h..h |-> w[x] * a[Replicate(i + x)]], -h, h),
                            SumTaps(w, -h, h))
    IN  [i \in 1..RowLen |-> IF a[i] - mean(i) > 0 - C THEN 255 ELSE 0]

\* The gradient magnitude cv2.Canny thresholds, |dx| + |dy| of the 3 x 3
\* Sobel with BORDER_REPLICATE, given out as the image.
Canny_magnitude(par, a) ==
    [i \in 1..RowLen |-> saturate_cast(4 * Abs(a[Replicate(i + 1)] - a[Replicate(i - 1)]))]

\* cv2.Canny(gray, threshold1, threshold2): the magnitude |dx| + |dy| of the
\* 3 x 3 Sobel (BORDER_REPLICATE, dy = 0 with equal rows), non-maximum
\* suppression along x, hysteresis between the two thresholds; 255 on an
\* edge, else 0.
Canny(par, a) ==
    LET low == IF par = "30,100" THEN 30 ELSE 50
        high == IF par = "30,100" THEN 100 ELSE 150
        m == [i \in 1..RowLen |-> 4 * Abs(a[Replicate(i + 1)] - a[Replicate(i - 1)])]
        mz(i) == IF i \in 1..RowLen THEN m[i] ELSE 0
        weak == {i \in 1..RowLen : m[i] > low /\ m[i] > mz(i - 1) /\ m[i] >= mz(i + 1)}
        strong == {i \in weak : m[i] > high}
        between(i, j) == IF i <= j THEN i..j ELSE j..i
        edge == {i \in weak : \E j \in strong : between(i, j) \subseteq weak}
    IN  [i \in 1..RowLen |-> IF i \in edge THEN 255 ELSE 0]

\* cv2.dilate(src, kernel, iterations=1): the maximum under the kernel, the
\* anchor at its centre (ksize / 2), pixels outside the image left out.
\* 2x2 is np.ones((2, 2)), ellipse3x3 the 3 x 3 MORPH_ELLIPSE.
dilate(par, a) ==
    LET hi == IF par = "2x2" THEN 0 ELSE 1
        under(i) == {a[j] : j \in (i - 1)..(i + hi) \cap 1..RowLen}
    IN  [i \in 1..RowLen |-> CHOOSE v \in under(i) : \A u \in under(i) : u <= v]

\* cv2.morphologyEx(edges, cv2.MORPH_CLOSE, kernel): the dilation, eroded (the
\* minimum under the same kernel).
morphologyEx(par, a) ==
    LET k == IF par = "CLOSE,2x2" THEN "2x2" ELSE "ellipse3x3"
        hi == IF k = "2x2" THEN 0 ELSE 1
        d == dilate(k, a)
        under(i) == {d[j] : j \in (i - 1)..(i + hi) \cap 1..RowLen}
    IN  [i \in 1..RowLen |-> CHOOSE v \in under(i) : \A u \in under(i) : v <= u]

\* The calls of the edge stage, once their operands are known by value.
ByValue(op, env) ==
    /\ op.stage = "edges"
    /\ op.fn = "cvtColor" => op.par = "BGR2GRAY"
    /\ op.a \in DOMAIN env
    /\ op.b = "" \/ op.b \in DOMAIN env

\* The row a call of the edge stage makes, and whether its arithmetic was
\* defined.
GradientOf(op, a, b, nan) ==
    CASE op.fn = "cvtColor" -> [ok |-> TRUE, row |-> a]
      [] op.fn = "Sobel" -> [ok |-> TRUE, row |-> Sobel(op.par, a)]
      [] op.fn = "magnitude" -> [ok |-> TRUE, row |-> magnitude(a, b)]
      [] op.fn = "normalize" -> normalize(a, nan)
      [] op.fn = "threshold" -> [ok |-> TRUE, row |-> threshold(a)]
      [] op.fn = "medianBlur" -> [ok |-> TRUE, row |-> medianBlur(op.par, a)]
      [] op.fn = "adaptiveThreshold" -> [ok |-> TRUE, row |-> adaptiveThreshold(op.par, a)]
      [] op.fn = "Canny" -> [ok |-> TRUE, row |-> Canny(op.par, a)]
      [] op.fn = "dilate" -> [ok |-> TRUE, row |-> dilate(op.par, a)]
      [] op.fn = "morphologyEx" -> [ok |-> TRUE, row |-> morphologyEx(op.par, a)]
      [] op.fn = "bitwise_not" -> [ok |-> TRUE, row |-> [i \in 1..RowLen |-> 255 - a[i]]]
      [] op.fn = "bitwise_and" -> [ok |-> TRUE, row |-> bitwise_and(a, b)]
      [] op.fn = "bitwise_or" ->
           [ok |-> TRUE,
            row |-> [i \in 1..RowLen |-> a[i] + b[i] - BitAnd(a[i], b[i], 8)]]

\* The function of each registered style, as convert_image calls it.
SolidStart ==
    /\ sb = NoRun
    /\ \E st \in Registered, row \in Rows(PixelLevels) :
         sb' = [phase |-> "run", style |-> st, at |-> 1, image |-> row,
                env |-> ("image" :> row), defined |-> TRUE, undefinedAt |-> 0,
                returned |-> FALSE]
    /\ UNCHANGED <<reqVars, rz, px, qz, en, cc, sv>>

\* The next call of the pipeline
SolidStep ==
    /\ sb.phase = "run"
    /\ sb.at <= Len(SingleProgram(sb.style).ops)
    /\ LET op == SingleProgram(sb.style).ops[sb.at]
       IN  IF ByValue(op, sb.env)
           THEN \E nan \in {0, 128, 255} :
                  \E g \in {GradientOf(op, sb.env[op.a],
                                       IF op.b = "" THEN <<>> ELSE sb.env[op.b], nan)} :
                    sb' = [sb EXCEPT !.at = @ + 1,
                                     !.env = (op.dst :> g.row) @@ sb.env,
                                     !.defined = @ /\ g.ok,
                                     !.undefinedAt = IF @ = 0 /\ ~g.ok THEN sb.at ELSE @]
           ELSE IF op.stage = "edges" /\ op.fn = "cvtColor"
           THEN \E row \in Rows(PixelLevels) :
                  sb' = [sb EXCEPT !.at = @ + 1, !.env = (op.dst :> row) @@ sb.env]
           ELSE sb' = [sb EXCEPT !.at = @ + 1,
                                 !.env = [n \in (DOMAIN sb.env) \ {op.dst} |-> sb.env[n]]]
    /\ UNCHANGED <<reqVars, rz, px, qz, en, cc, sv>>

\* The pipeline's return: it returns when none of its calls raised.
SolidReturn ==
    /\ sb.phase = "run"
    /\ sb.at > Len(SingleProgram(sb.style).ops)
    /\ sb' = [sb EXCEPT !.phase = "done",
                        !.returned = RunProgram(SingleProgram(sb.style),
                                                Shape(MinDim, MinDim, 3), 0).ok]
    /\ UNCHANGED <<reqVars, rz, px, qz, en, cc, sv>>

NextSolid == SolidStart \/ SolidStep \/ SolidReturn

SpecSolid == Init /\ [][NextSolid]_vars

(***************************************************************************)
(* The enhancement scalings on one channel value:                          *)
(*   x[:, :, c] = np.clip(x[:, :, c] * factor, 0, 255); x.astype(np.uint8) *)
(***************************************************************************)
\* The factor of a scaling as the float32 nearest to it, in units of 2^-23.
FactorMantissa(par) ==
    CASE par = "L*1.05" -> 8808038
      [] par = "V*1.1" -> 9227469
      [] par = "S*1.2" -> 10066330
      [] par = "S*1.3" -> 10905190
      [] par = "S*1.4" -> 11744051
      [] par = "S*1.5" -> 12582912

\* The factor as written, in hundredths.
FactorHundredths(par) ==
    CASE par = "L*1.05" -> 105
      [] par = "V*1.1" -> 110
      [] par = "S*1.2" -> 120
      [] par \in {"S*1.3", "S*1.3,float64"} -> 130
      [] par = "S*1.4" -> 140
      [] par = "S*1.5" -> 150

\* The integer part of the float32 product v * factor.  The exact product is
\* k + F / 2^23; rounded to 24 bits it reaches k + 1 when F is within half a
\* float step of it (the tie goes to the even mantissa, which is k + 1).
MulFloat32(v, mant) ==
    LET hi == v * (mant \div 65536)
        lo == v * (mant % 65536)
        A == hi + (lo \div 65536)
        k == A \div 128
        F == ((A % 128) * 65536) + (lo % 65536)
        e == CeilLog2(k + 1) - 1
    IN  IF k = 0 THEN 0
        ELSE IF e >= 1 /\ F >= Pow2(23) - Pow2(e - 1) THEN k + 1 ELSE k

\* astype(np.uint8) with no np.clip before it.
clip_off(x) == x % 256

\* np.clip(x, 0, 255) of a product that is not negative
clip(x) == IF x > 255 THEN 255 ELSE x

\* One scaling of a program on a channel value.  The product of a uint8
\* array and a factor is float64: over 0..255 its integer part is that of
\* the exact product.
scale(par, v) ==
    IF par = "S*1.3,float64" THEN clip((v * FactorHundredths(par)) \div 100)
    ELSE clip(MulFloat32(v, FactorMantissa(par)))

EnhanceOp == SingleProgram(en.style).ops[en.at]

\* A pipeline reaches one of its scalings with a channel value v.
EnhanceStart ==
    /\ en = NoRun
    /\ \E st \in Registered, v \in 0..255 :
         \E i \in {j \in DOMAIN SingleProgram(st).ops : SingleProgram(st).ops[j].fn = "scale"} :
           en' = [phase |-> "run", style |-> st, at |-> i, v |-> v, once |-> 0, twice |-> 0]
    /\ UNCHANGED <<reqVars, rz, px, qz, sb, cc, sv>>

\* The scaling
EnhanceScale ==
    /\ en.phase = "run"
    /\ en' = [en EXCEPT !.phase = "once", !.once = scale(EnhanceOp.par, en.v)]
    /\ UNCHANGED <<reqVars, rz, px, qz, sb, cc, sv>>

\* The same scaling applied to the frame it made.
EnhanceAgain ==
    /\ en.phase = "once"
    /\ en' = [en EXCEPT !.phase = "twice", !.twice = scale(EnhanceOp.par, en.once)]
    /\ UNCHANGED <<reqVars, rz, px, qz, sb, cc, sv>>

NextEnhance == EnhanceStart \/ EnhanceScale \/ EnhanceAgain

SpecEnhance == Init /\ [][NextEnhance]_vars

(***************************************************************************)
(* The converter objects app.py builds once at import, the style listing   *)
(* and the style dispatch of convert_image, called any number of times.    *)
(***************************************************************************)
\* CartoonConverter.__init__
default_params ==
    [bilateral_d |-> 9, bilateral_sigma_color |-> 300, bilateral_sigma_space |-> 300,
     median_blur_kernel |-> 7, edge_block_size |-> 9, edge_c |-> 2, color_clusters |-> 12]

\* AICartoonConverter.__init__(device='auto') under the outcome of the
\* import probe (TORCH_AVAILABLE) and of torch.cuda.is_available().
AICartoonConverter(torch, cuda) ==
    [torch |-> torch,
     device |-> IF torch /\ cuda THEN "cuda" ELSE "cpu",
     transform |-> IF torch THEN "ToTensor,Normalize" ELSE "None"]

\* A dispatch that takes the learned path when the backend is there.
transfer_by_backend(self, st) ==
    IF self.torch THEN classic_cartoon ELSE AIProgram(st)

\* AICartoonConverter.apply_neural_style_transfer(self, image, style)
apply_neural_style_transfer(self, st) == AIProgram(st)

\* AICartoonConverter.get_available_styles(self)
ai_available_styles(self) == AIStyles

\* GET /api/styles
get_available_styles(ai) ==
    [classic_styles |-> ClassicStyles,
     ai_styles |-> ai_available_styles(ai),
     all_styles |-> {"classic", "smooth", "edge_heavy", "pencil_sketch", "pencil_sketch_color",
                     "oil_painting", "cartoon", "anime", "watercolor"}]

\* Import of app.py: the probe runs, then the two converters are built.
Startup ==
    /\ sv = NoRun
    /\ \E torch \in BOOLEAN, cuda \in BOOLEAN :
         sv' = [phase |-> "up", probes |-> 1, ai |-> AICartoonConverter(torch, cuda),
                params |-> default_params, listed |-> <<>>, served |-> 0,
                last |-> [style |-> "", image |-> NoShape, accepted |-> FALSE,
                         calls |-> <<>>]]
    /\ UNCHANGED <<reqVars, rz, px, qz, sb, en, cc>>

\* The style dispatch of convert_image on a decoded frame
Dispatch ==
    /\ sv.phase = "up"
    /\ \E st \in StyleInputs, image \in LibFrames :
         LET prog == IF st \in Range(AIStyles) THEN apply_neural_style_transfer(sv.ai, st)
                     ELSE SingleProgram(st)
         IN  sv' = [sv EXCEPT !.served = IF @ < MaxServed THEN @ + 1 ELSE @,
                              !.last = [style |-> st, image |-> image,
                                        accepted |-> SingleAccepts(st),
                                        calls |-> IF SingleAccepts(st)
                                                  THEN RunProgram(prog, image, 0).calls
                                                  ELSE <<>>]]
    /\ UNCHANGED <<reqVars, rz, px, qz, sb, en, cc>>

\* GET /api/styles
ListStyles ==
    /\ sv.phase = "up"
    /\ sv' = [sv EXCEPT !.listed = get_available_styles(sv.ai)]
    /\ UNCHANGED <<reqVars, rz, px, qz, sb, en, cc>>

NextService == Startup \/ Dispatch \/ ListStyles

SpecService == Init /\ [][NextService]_vars

(***************************************************************************)
(* Concurrent pipeline calls on the shared converter objects.  An array is *)
(* a cell of the heap; a call binds its local names to cells.  The content *)
(* of a cell is the call that made it, with the contents it read.          *)
(***************************************************************************)
Calls == {1, 2}

NoContent == [fn |-> "none"]

\* The frame call k was given, which it owns.
InputOf(k) == [fn |-> "frame", par |-> "", reads |-> <<k>>, a |-> NoContent, b |-> NoContent]

\* self.default_params[...] as _classic_cartoon reads it for a call.
Reads(prog, op, params) ==
    IF prog # classic_cartoon THEN <<>>
    ELSE CASE op.fn = "bilateralFilter" ->
                <<params.bilateral_d, params.bilateral_sigma_color, params.bilateral_sigma_space>>
           [] op.fn = "medianBlur" -> <<params.median_blur_kernel>>
           [] op.fn = "adaptiveThreshold" -> <<params.edge_block_size, params.edge_c>>
           [] op.fn = "quantize_colors" -> <<params.color_clusters>>
           [] OTHER -> <<>>

\* Results written into arrays the converter object keeps, one per call site.
TargetScratch(k, i, op, env) ==
    IF op.fn \in {"scale", "clahe"} THEN env[op.a] ELSE <<0, i>>

\* The cell call k writes at its i-th call.  A slice assignment
\* (x[:, :, c] = ...) writes into the array it reads; every library call
\* returns a new array.
Target(k, i, op, env) ==
    IF op.fn \in {"scale", "clahe"} THEN env[op.a] ELSE <<k, i>>

\* One call of a pipeline function's body.
StepCall(k, c, heap, params) ==
    LET prog == SingleProgram(c.style)
        op == prog.ops[c.at]
        made == [fn |-> op.fn, par |-> op.par, reads |-> Reads(prog, op, params),
                 a |-> heap[c.env[op.a]],
                 b |-> IF op.b = "" THEN NoContent ELSE heap[c.env[op.b]]]
        id == Target(k, c.at, op, c.env)
    IN  IF op.fn = "copy" /\ op.par = "alias"
        THEN [call |-> [c EXCEPT !.at = @ + 1, !.env = (op.dst :> c.env[op.a]) @@ c.env],
              heap |-> heap]
        ELSE [call |-> [c EXCEPT !.at = @ + 1, !.env = (op.dst :> id) @@ c.env],
              heap |-> (id :> made) @@ heap]

NewCall(k, st) ==
    [phase |-> "run", style |-> st, at |-> 1, env |-> ("image" :> <<k, 0>>),
     out |-> NoContent]

\* The frame a call returns when no other call runs.
RECURSIVE RunAlone(_, _, _, _)
RunAlone(k, c, heap, params) ==
    IF c.at > Len(SingleProgram(c.style).ops)
    THEN heap[c.env[SingleProgram(c.style).ret]]
    ELSE LET s == StepCall(k, c, heap, params)
         IN  RunAlone(k, s.call, s.heap, params)

\* Two requests reach their pipeline calls, each with a frame of its own.
ConcurrentBegin ==
    /\ cc = NoRun
    /\ \E st \in [Calls -> Registered] :
         cc' = [phase |-> "run", params |-> default_params, overlap |-> FALSE,
                heap |-> [id \in {<<k, 0>> : k \in Calls} |-> InputOf(id[1])],
                call |-> [k \in Calls |-> NewCall(k, st[k])]]
    /\ UNCHANGED <<reqVars, rz, px, qz, sb, en, sv>>

\* The next call of one of the two pipelines
CallStep(k) ==
    /\ cc.phase = "run"
    /\ cc.call[k].phase = "run"
    /\ cc.call[k].at <= Len(SingleProgram(cc.call[k].style).ops)
    /\ \E s \in {StepCall(k, cc.call[k], cc.heap, cc.params)} :
         cc' = [cc EXCEPT !.call[k] = s.call, !.heap = s.heap,
                          !.overlap = @ \/ \E j \in Calls \ {k} :
                                              /\ cc.call[j].phase = "run"
                                              /\ cc.call[j].at > 1]
    /\ UNCHANGED <<reqVars, rz, px, qz, sb, en, sv>>

\* The return of one of the two pipelines
CallReturn(k) ==
    /\ cc.phase = "run"
    /\ cc.call[k].phase = "run"
    /\ cc.call[k].at > Len(SingleProgram(cc.call[k].style).ops)
    /\ cc' = [cc EXCEPT !.call[k].phase = "done",
                        !.call[k].out = cc.heap[cc.call[k].env[SingleProgram(cc.call[k].style).ret]]]
    /\ UNCHANGED <<reqVars, rz, px, qz, sb, en, sv>>

NextConcurrent ==
    \/ ConcurrentBegin
    \/ \E k \in Calls : CallStep(k)
    \/ \E k \in Calls : CallReturn(k)

SpecConcurrent == Init /\ [][NextConcurrent]_vars

(***************************************************************************)
(* Claims                                                                  *)
(***************************************************************************)
StageRan == \E i \in DOMAIN calls : calls[i] \in StageFns

\* The result entry of the batch item the loop has just worked on.
LastResult == results[Len(results)]

\* C1: a convert with a style identifier that is not registered raises the
\* unknown-style error, runs no pipeline stage and returns no converted frame.
C1_UnknownStyleRejected ==
    (endpoint \in {"convert", "batch", "library"} /\ style \notin Registered)
        => /\ ~StageRan
           /\ frames.out = NoShape
           /\ endpoint = "library" => response.detail = "raised"
           /\ (endpoint = "batch" /\ results # <<>>) => LastResult.status = "error"

\* C2: a batch of more than 10 files fails as a whole before any file is
\* read, validated, converted or written; a batch of at most 10 files gets
\* every file processed.
C2_BatchCap ==
    endpoint = "batch"
        => /\ nfiles > 10
               => /\ pc = "done"
                  /\ response.status = 400
                  /\ results = <<>> /\ calls = <<>> /\ file = NoFile
           /\ (nfiles <= 10 /\ pc = "done")
               => response.status = 200 /\ Len(results) = nfiles

C2_Witness ==
    endpoint = "batch" /\ nfiles = 11 /\ pc = "done" /\ response.status = 400

\* The last item of the loop failed: bad extension, failed validation,
\* undecodable bytes, or a pipeline call that raised.
ItemFailed ==
    \/ file.ext \notin AllowedExtensions
    \/ file.size > Cap
    \/ file.kind # "image"
    \/ file.w < 50 \/ file.h < 50 \/ file.w > 10000 \/ file.h > 10000
    \/ file.mode \notin {"RGB", "RGBA"}
    \/ frames.why # "none"

\* What the handler may do from inside the loop: record one more item and
\* stay in the loop, or, with every item recorded, answer 200.
LoopStep ==
    (pc = "batch" /\ nfiles <= 10)
        => \/ /\ pc' = "batch"
              /\ Len(results) < nfiles
              /\ Len(results') = Len(results) + 1
              /\ SubSeq(results', 1, Len(results)) = results
           \/ /\ pc' = "done"
              /\ Len(results) = nfiles
              /\ results' = results
              /\ response'.status = 200

\* C3: in a batch within the cap the failure of an item is recorded as that
\* item's error, the loop goes on to the items left, and the call succeeds
\* with one entry per item.
C3_Isolation ==
    /\ []((endpoint = "batch" /\ nfiles <= 10)
            => /\ pc \in {"batch", "done"}
               /\ Len(results) <= nfiles
               /\ (results # <<>> /\ ItemFailed) => LastResult.status = "error"
               /\ pc = "done" => (response.status = 200 /\ Len(results) = nfiles))
    /\ [][LoopStep]_vars

C3_Witness ==
    /\ endpoint = "batch" /\ pc = "done" /\ nfiles = 3 /\ response.status = 200
    /\ results[1].status = "success"
    /\ results[2].status = "error"
    /\ results[3].status = "success"

\* C4: on the single and the batch path no pipeline stage runs unless the
\* format, the size and the style identifier have all been validated.
C4_ValidateBeforeStages ==
    (endpoint \in {"convert", "batch"} /\ StageRan)
        => /\ file.ext \in AllowedExtensions
           /\ file.size <= Cap
           /\ file.kind = "image"
           /\ style \in Registered

\* C5: for an upload larger than the cap the size-limit error is produced
\* and neither the validator's Image.open nor the decoder has run.
C5_SizeBeforeDecode ==
    (endpoint \in {"convert", "batch"} /\ file # NoFile
        /\ file.ext \in AllowedExtensions /\ file.size > 10 * 1048576)
        => /\ "Image.open" \notin Range(calls)
           /\ "read_image_from_bytes" \notin Range(calls)
           /\ "validate_image" \in Range(calls)
           /\ endpoint = "convert"
                => response.status = 400 /\ response.detail = "File size exceeds maximum"
           /\ endpoint = "batch"
                => /\ LastResult.status = "error"
                   /\ LastResult.message = "File size exceeds maximum"

C5_Witness ==
    /\ endpoint = "convert" /\ pc = "done"
    /\ file.size = 10 * 1048576 + 1
    /\ response.detail = "File size exceeds maximum"

Validated == "validate_image" \in Range(calls)

\* The handler went on to decode: the validator returned (True, "").
Accepted == "read_image_from_bytes" \in Range(calls)

DimsInRange == file.w >= 50 /\ file.w <= 10000 /\ file.h >= 50 /\ file.h <= 10000

WithinOnePixel(out, inn, num, den) ==
    out * den <= inn * num /\ inn * num <= (out + 1) * den

\* C7: for sides in 50..10000 and the box 1920x1080 the frame resize_image
\* returns fits the box, has sides of at least 1 and no larger than the
\* input's, is the input itself when that fits, and keeps the aspect ratio to
\* within one pixel per side.
C7_ResizeFits ==
    rz # NoRz
        => /\ rz.out.w <= 1920 /\ rz.out.h <= 1080
           /\ rz.out.w >= 1 /\ rz.out.h >= 1
           /\ rz.out.w <= rz.inn.w /\ rz.out.h <= rz.inn.h
           /\ rz.out.ch = rz.inn.ch
           /\ (rz.inn.w <= 1920 /\ rz.inn.h <= 1080) => rz.out = rz.inn
           /\ ~(rz.inn.w <= 1920 /\ rz.inn.h <= 1080)
                => \E r \in {<<1920, rz.inn.w>>, <<1080, rz.inn.h>>} :
                      /\ WithinOnePixel(rz.out.w, rz.inn.w, r[1], r[2])
                      /\ WithinOnePixel(rz.out.h, rz.inn.h, r[1], r[2])

C7_Witness ==
    rz.inn = Shape(10000, 10000, 3) /\ rz.out.w \in {1079, 1080} /\ rz.out.h \in {1079, 1080}

\* The pipeline the handler that ran last called for the request's style.
ProgramCalled ==
    CASE endpoint = "convert" -> SingleProgram(style)
      [] endpoint = "batch" -> BatchProgram(style)
      [] OTHER -> ConverterProgram(style)

SameSides(a, b) == a.w = b.w /\ a.h = b.h

\* C8: whatever the style, a pipeline given a valid frame returns a frame of
\* the same width and height, and the edge mask and the colour frame it
\* composites have the same width and height.
C8_SizePreserved ==
    frames.inn # NoShape
        => /\ frames.why # "operands"
           /\ frames.why = "none" => SameSides(frames.out, frames.inn)
           /\ HasComposite(ProgramCalled)
                => LET o == CompositeOperands(ProgramCalled, frames.inn)
                   IN  SameSides(o[1], o[2]) /\ SameSides(o[1], frames.inn)

C8_Witness ==
    /\ endpoint = "convert" /\ style = "ultra" /\ response.status = 200
    /\ frames.inn = Shape(10000, 50, 3) /\ frames.out = Shape(10000, 50, 3)

DistinctIn(hist) == Cardinality(Present(hist))

DistinctOut == {g.out : g \in qz.quantized}

\* C10: quantization with k clusters of a frame with m <= k distinct colours
\* returns a frame with at most m distinct colours; in general the frame has
\* at most k distinct colours, every label is one of the k (1..k here, 0..k-1
\* in the code), and every output pixel is the centre its label indexes.
C10_Quantization ==
    qz.phase = "done" =>
        /\ DistinctIn(qz.image) <= qz.k => Cardinality(DistinctOut) <= DistinctIn(qz.image)
        /\ Cardinality(DistinctOut) <= qz.k
        /\ \A g \in qz.quantized : g.label \in 1..qz.k /\ g.out = qz.centers[g.label]

\* The part of C10 that does not count the colours of the input.
C10_LabelsIndexCenters ==
    qz.phase = "done" =>
        /\ Cardinality(DistinctOut) <= qz.k
        /\ \A g \in qz.quantized : g.label \in 1..qz.k /\ g.out = qz.centers[g.label]

PixelOps == PixelProgram(px.style).ops

\* The compositing call has been made.
Composited == px.phase # "none" /\ px.at > CompositeAt(PixelProgram(px.style))

LastOp == PixelOps[px.at - 1]

\* The frame the compositing call assigns, and the colour frame it reads.
MaskedFrame == px.env[PixelOps[CompositeAt(PixelProgram(px.style))].dst]

ColourFrame == px.env[PixelOps[CompositeAt(PixelProgram(px.style))].a]

BlackUnderMask(row) == \A i \in 1..RowLen : px.mask[i] = 0 => row[i] = 0

\* C9: in classic, smooth, edge_heavy, ultra and anime every pixel whose
\* edge-mask value is 0 is black in the composited frame, whatever the
\* colour frame holds there, after the sharpening and after the later calls
\* too, so in the frame the pipeline returns.
C9_MaskingLaw ==
    /\ Composited /\ LastOp.stage \in {"composite", "sharpen"} => BlackUnderMask(MaskedFrame)
    /\ px.phase = "done" => BlackUnderMask(px.out)

\* C9, amended: every pixel whose edge-mask value is 0 is black in the frame
\* bitwise_and returns and stays black through the sharpening (filter2D in
\* classic, the unsharp blend in ultra); that frame is what classic, smooth
\* and edge_heavy return.  The frames ultra and anime return have been
\* through CLAHE and bilateralFilter after the masking.
C9_MaskedStaysBlack ==
    /\ Composited /\ LastOp.stage \in {"composite", "sharpen"} => BlackUnderMask(MaskedFrame)
    /\ px.phase = "done" /\ px.style \in {"classic", "smooth", "edge_heavy"}
         => BlackUnderMask(px.out)

\* ultra has sharpened a masked frame whose colour under the mask was not black
C9_Witness ==
    /\ px.phase = "run" /\ px.style = "ultra" /\ Composited /\ LastOp.fn = "addWeighted"
    /\ \E i, j \in 1..RowLen :
         /\ px.mask[i] = 0 /\ ColourFrame[i] > 0 /\ MaskedFrame[i] = 0
         /\ px.mask[j] = 255 /\ MaskedFrame[j] > 0

SolidRow(a) == \A i, j \in DOMAIN a : a[i] = a[j]

\* C11: every registered style, run on a minimal valid solid-colour frame,
\* returns without error, and none of its calls reaches an undefined
\* arithmetic step (such as ultra's division by the maximum gradient).
C11_SolidFrameDefined ==
    (sb.phase = "done" /\ SolidRow(sb.image)) => (sb.returned /\ sb.defined)

\* C12: the enhancement is idempotent under identical factors: the same
\* scaling applied a second time to the enhanced frame gives the channel
\* values of one application, for every channel value in 0..255.
C12_EnhanceIdempotent ==
    en.phase = "twice" => en.twice = en.once

ExactScaled(par, v) == (v * FactorHundredths(par)) \div 100

Min255(x) == IF x > 255 THEN 255 ELSE x

\* C13: every scaling clamps to 0..255: a channel value v scaled by f becomes
\* min(255, floor(v * f)) and never wraps modulo 256, also at v = 0 and 255.
C13_ScalingFloor ==
    en.phase \in {"once", "twice"} => en.once = Min255(ExactScaled(EnhanceOp.par, en.v))

\* C13 as the code has it: the scaled value is clamped to 0..255 and never
\* wraps (it is never below v, 0 stays 0 and 255 stays 255); it is
\* min(255, floor(v * f)) or, where the float32 product of v and the
\* float32 factor falls under an integer v * f, one less.
C13_ScalingClamped ==
    en.phase \in {"once", "twice"} =>
        /\ en.once \in 0..255
        /\ en.once >= en.v
        /\ en.v = 0 => en.once = 0
        /\ en.v = 255 => en.once = 255
        /\ en.once \in {Min255(ExactScaled(EnhanceOp.par, en.v)),
                        Min255(ExactScaled(EnhanceOp.par, en.v) - 1)}
        /\ en.once < Min255(ExactScaled(EnhanceOp.par, en.v))
              => (en.v * FactorHundredths(EnhanceOp.par)) % 100 = 0

\* A scaling whose product passes 255 has been clamped.
C13_Witness ==
    /\ en.phase = "once"
    /\ ExactScaled(EnhanceOp.par, en.v) > 255
    /\ en.once = 255

Listed == Range(sv.listed.classic_styles) \cup Range(sv.listed.ai_styles)

OtherBackend == {AICartoonConverter(~sv.ai.torch, cuda) : cuda \in BOOLEAN}

\* C17: with the learned backend present or absent the AI converter lists
\* the same styles and dispatches each style to the same heuristic pipeline;
\* the probe is evaluated once, at start, and the dispatch does not branch
\* on it.
C17_BackendIndifferent ==
    sv.phase = "up" =>
        /\ sv.probes = 1
        /\ \A other \in OtherBackend :
             /\ ai_available_styles(sv.ai) = ai_available_styles(other)
             /\ sv.listed # <<>> => sv.listed = get_available_styles(other)
             /\ sv.last.style \in Range(AIStyles) =>
                  sv.last.calls =
                      RunProgram(apply_neural_style_transfer(other, sv.last.style),
                                 sv.last.image, 0).calls

\* An AI style has been converted with the learned backend present.
C17_Witness ==
    /\ sv.phase = "up"
    /\ sv.ai.torch
    /\ sv.last.style = "anime"
    /\ sv.last.calls # <<>>
    /\ sv.listed # <<>>

\* C15: under any interleaving of concurrent convert calls that each own
\* their input frame, the converter's parameter table stays as constructed,
\* the input frame of a call is left unchanged, and the result of each call
\* is the one it produces when run alone.
C15_NoInterference ==
    cc.phase = "run" =>
        /\ cc.params = default_params
        /\ \A k \in Calls :
             /\ cc.heap[<<k, 0>>] = InputOf(k)
             /\ cc.call[k].phase = "done" =>
                  cc.call[k].out =
                      RunAlone(k, NewCall(k, cc.call[k].style),
                               (<<k, 0>> :> InputOf(k)), default_params)

\* Two calls whose steps interleaved have both returned, one of them through
\* the in-place writes and the alias of ultra, the other reading the
\* parameter table.
C15_Witness ==
    /\ cc.phase = "run"
    /\ cc.overlap
    /\ cc.call[1].phase = "done" /\ cc.call[1].style = "ultra"
    /\ cc.call[2].phase = "done" /\ cc.call[2].style = "classic"

\* C16: in convert_image a failure inside decode, resize, a pipeline stage
\* or encode is caught at the boundary and answered as a processing error
\* (500); a validation rejection raised inside the same try block (400)
\* passes through unchanged and is never answered as a processing error.
C16_BoundaryErrors ==
    (pc = "done" /\ endpoint = "convert") =>
        /\ raised.type = "Exception" =>
             (response.status = 500 /\ response.detail = "Error processing image")
        /\ raised.type = "HTTPException" =>
             /\ response.status = raised.status
             /\ response.status = 400
             /\ response.detail # "Error processing image"
        /\ (Validated /\ ~validate_image(file, MaxSizeMb).ok) =>
             (response.status = 400 /\ response.detail = validate_image(file, MaxSizeMb).msg)
        /\ frames.why # "none" => response.status = 500
        /\ response.status = 200 => raised.type = "none"

\* The validator's rejection, raised inside the try block, has been answered
\* with its own status and message.
C16_Witness ==
    /\ pc = "done" /\ endpoint = "convert"
    /\ Validated
    /\ raised.type = "HTTPException"
    /\ response.status = 400
    /\ response.detail = "Invalid image file"

\* C18: for every image the validator accepts, whatever its pixel mode, the
\* decoder returns a frame of three channels rather than failing or
\* returning a frame with another channel count.
C18_DecoderThreeChannels ==
    (pc = "done" /\ endpoint = "convert" /\ Accepted)
        => read_image_from_bytes(file).ch = 3

PencilStyles == {"pencil_sketch", "pencil_sketch_color"}

\* C19: for the same input frame, pencil sketch returns a frame of one
\* channel in grayscale mode and a frame of three channels in colour mode.
C19_PencilSketchChannels ==
    (pc = "done" /\ endpoint = "convert" /\ style \in PencilStyles
        /\ frames.inn # NoShape /\ frames.why = "none") =>
        /\ style = "pencil_sketch" => frames.out.ch = 1
        /\ style = "pencil_sketch_color" => frames.out.ch = 3
        /\ SameSides(frames.out, frames.inn)
        /\ RunProgram(SingleProgram("pencil_sketch"), frames.inn, 0).out.ch = 1
        /\ RunProgram(SingleProgram("pencil_sketch_color"), frames.inn, 0).out.ch = 3

\* The grayscale sketch of a colour frame has been returned to the handler.
C19_Witness ==
    /\ pc = "done" /\ endpoint = "convert" /\ style = "pencil_sketch"
    /\ frames.inn.ch = 3 /\ frames.out.ch = 1

\* The pipeline calls the handler's request made, in order.
StageCalls == SelectSeq(calls, LAMBDA fn : fn \in StageFns)

WatercolorReturned ==
    /\ pc = "done" /\ endpoint = "convert" /\ style = "watercolor"
    /\ frames.inn # NoShape /\ frames.why = "none"

WatercolorOrder ==
    StageCalls = <<"edgePreservingFilter", "stylization", "GaussianBlur",
                   "cvtColor", "scale", "cvtColor">>

Stylization(prog) == CHOOSE op \in Range(prog.ops) : op.fn = "stylization"

\* C20: watercolor runs edge-preserving smoothing, then the flattening
\* stylization, then the small symmetric blur, then the saturation boost,
\* and its stylization is the one oil painting applies, with the same
\* operation and the same parameters.
C20_WatercolorAsOil ==
    WatercolorReturned =>
        /\ WatercolorOrder
        /\ Stylization(SingleProgram(style)).fn = Stylization(SingleProgram("oil_painting")).fn
        /\ Stylization(SingleProgram(style)).par = Stylization(SingleProgram("oil_painting")).par

\* C20 as the code has it: the same order, and the stylization is the
\* operation oil painting applies with the same sigma_s = 60, but with
\* sigma_r = 0.5 where oil painting has 0.6, on the smoothed frame.
C20_WatercolorOrder ==
    WatercolorReturned =>
        /\ WatercolorOrder
        /\ Stylization(SingleProgram(style)).fn = Stylization(SingleProgram("oil_painting")).fn
        /\ Stylization(SingleProgram(style)).par = "sigma_s=60,sigma_r=0.5"
        /\ Stylization(SingleProgram("oil_painting")).par = "sigma_s=60,sigma_r=0.6"
        /\ Stylization(SingleProgram(style)).a = "smooth"

\* A watercolor conversion has been answered with its image.
C20_Witness ==
    /\ WatercolorReturned
    /\ response.status = 200
    /\ Len(StageCalls) = 6

GenericStyles == {"classic", "smooth", "edge_heavy", "ultra"}

StageRank(stage) ==
    CASE stage = "smooth" -> 1
      [] stage = "edges" -> 2
      [] stage = "quantize" -> 3
      [] stage = "enhance" -> 4
      [] stage = "composite" -> 5
      [] OTHER -> 6

\* The calls the stepped pipeline has made so far, and the names they assigned.
SolidOps == SingleProgram(sb.style).ops

SolidRan == 1..(sb.at - 1)

AssignedBefore(i, name, stage) ==
    \E j \in 1..(i - 1) : SolidOps[j].dst = name /\ SolidOps[j].stage = stage

Composites == {i \in SolidRan : SolidOps[i].stage = "composite" /\ SolidOps[i].fn = "bitwise_and"}

\* The order every generic chain keeps: smoothing, edges, quantization, the
\* channel scalings on the quantized frame, one compositing call.
ChainOrder ==
    /\ \A i, j \in SolidRan :
         (i < j /\ StageRank(SolidOps[j].stage) <= 5)
            => StageRank(SolidOps[i].stage) <= StageRank(SolidOps[j].stage)
    /\ \A i \in SolidRan :
         /\ SolidOps[i].fn = "quantize_colors" =>
              (SolidOps[i].a = "smooth" /\ AssignedBefore(i, "smooth", "smooth"))
         /\ SolidOps[i].stage = "enhance" =>
              /\ AssignedBefore(i, "quantized", "quantize")
              /\ SolidOps[i].a = "quantized" \/ AssignedBefore(i, SolidOps[i].a, "enhance")
         /\ SolidOps[i].fn = "scale" => SolidOps[i].stage = "enhance"
         /\ i \in Composites =>
              /\ SolidOps[i].a = "quantized" /\ SolidOps[i].b = "edges_colored"
              /\ AssignedBefore(i, "edges", "edges")
              /\ AssignedBefore(i, "quantized", "quantize")
    /\ Cardinality(Composites) <= 1
    /\ sb.phase = "done" => Cardinality(Composites) = 1

\* C21: in classic, smooth, edge_heavy and ultra the stages run in the order
\* smoothing, edge extraction, quantization, enhancement, compositing:
\* quantization reads the smoothed frame, any enhancement is applied to the
\* quantized frame before compositing, and compositing happens exactly once,
\* after the edge mask and the colour frame exist.
C21_EnhanceBeforeComposite ==
    (sb.phase # "none" /\ sb.style \in GenericStyles) =>
        /\ ChainOrder
        /\ \A i \in SolidRan :
             SolidOps[i].stage \in {"enhance", "contrast"} => \A c \in Composites : i < c

\* C21 as the code has it: the same order, with the channel scalings on the
\* quantized frame before the one compositing call; ultra alone enhances
\* once more after it (CLAHE on the composited, sharpened frame).
C21_ChainOrder ==
    (sb.phase # "none" /\ sb.style \in GenericStyles) =>
        /\ ChainOrder
        /\ \A i \in SolidRan :
             SolidOps[i].stage = "contrast" =>
                /\ sb.style = "ultra"
                /\ SolidOps[i].fn = "clahe" => SolidOps[i].a = "lab"
                /\ Composites # {}
                /\ AssignedBefore(i, "cartoon", "composite")

\* ultra has returned, its contrast enhancement made after the compositing.
C21_Witness ==
    /\ sb.phase = "done" /\ sb.style = "ultra"
    /\ Cardinality(Composites) = 1
    /\ \E i \in SolidRan : SolidOps[i].fn = "clahe" /\ \A c \in Composites : c < i


\* The calls that make or rework an edge mask: the detections, the inversion,
\* the dilation, the fusions and the close.
MaskFns ==
    {"adaptiveThreshold", "Canny", "threshold", "bitwise_not", "bitwise_or",
     "bitwise_and", "dilate", "morphologyEx"}

IsMaskOp(op) == op.stage = "edges" /\ op.fn \in MaskFns

\* The call that hands the mask to the compositor.
IsHandOff(op) == op.stage = "composite" /\ op.fn = "cvtColor"

Binary(row) == \A i \in DOMAIN row : row[i] \in {0, 255}

\* C22: in every style the edge mask is binary: the mask each detection,
\* inversion, dilation, AND/OR fusion and morphological close has just made,
\* and the mask handed to the compositor, hold no value other than 0 and 255.
C22_EdgeMaskBinary ==
    sb.phase # "none" =>
        \A i \in SolidRan :
            /\ (i = sb.at - 1 /\ IsMaskOp(SolidOps[i])) =>
                 /\ SolidOps[i].dst \in DOMAIN sb.env
                 /\ Binary(sb.env[SolidOps[i].dst])
            /\ IsHandOff(SolidOps[i]) =>
                 /\ SolidOps[i].a \in DOMAIN sb.env
                 /\ Binary(sb.env[SolidOps[i].a])

\* edge_heavy has handed a mask to the compositor that its three detections,
\* the inversion, the OR fusion and the close made, holding both an edge (0)
\* and a non-edge (255) pixel, from an image that is not solid.
C22_Witness ==
    /\ sb.phase = "done" /\ sb.style = "edge_heavy"
    /\ \E i \in SolidRan : IsHandOff(SolidOps[i])
    /\ "edges" \in DOMAIN sb.env
    /\ Range(sb.env["edges"]) = {0, 255}
    /\ "edges_canny" \in DOMAIN sb.env /\ Range(sb.env["edges_canny"]) = {0, 255}


\* C23: the batch entry point treats an item as the single-convert entry
\* point treats its style identifier: an item it converts carries an
\* identifier single convert accepts, and the calls made on its frame and the
\* frame they return are those of the pipeline single convert runs for it.
C23_BatchAsSingle ==
    (endpoint = "batch" /\ results # <<>> /\ LastResult.status = "success") =>
        /\ SingleAccepts(style)
        /\ StageCalls = RunProgram(SingleProgram(style), frames.inn, 0).calls
        /\ frames.out = RunProgram(SingleProgram(style), frames.inn, 0).out


\* C24: for every style single convert accepts, the frame the style's
\* pipeline returns on a valid input has the three channels the encoder
\* requires, so the encoding step does not fail on a pipeline's output.
C24_PipelineFrameEncodable ==
    (endpoint = "convert" /\ SingleAccepts(style) /\ frames.out # NoShape) =>
        /\ frames.out.ch = 3
        /\ response.status = 500 => "image_to_bytes" \in Range(calls)


\* C25: after a batch call with n <= 10 files the response holds one result
\* entry per file, in input order, each with status success or error, and
\* total = n = successful + failed.
C25_BatchResults ==
    (endpoint = "batch" /\ pc = "done" /\ nfiles <= MaxBatchFiles) =>
        /\ response.status = 200
        /\ Len(results) = nfiles
        /\ \A i \in DOMAIN results :
             /\ results[i].filename = i
             /\ results[i].status \in {"success", "error"}
        /\ response.total = nfiles
        /\ response.successful = Count(results, "success")
        /\ response.failed = Count(results, "error")
        /\ response.total = response.successful + response.failed

\* A batch of ten files has returned, its first entry an error, its second a
\* success, nine successes in all.
C25_Witness ==
    /\ endpoint = "batch" /\ pc = "done" /\ nfiles = MaxBatchFiles
    /\ Len(results) = MaxBatchFiles
    /\ results[1].status = "error" /\ results[1].filename = 1
    /\ results[2].status = "success" /\ results[2].filename = 2
    /\ response.total = MaxBatchFiles
    /\ response.successful = MaxBatchFiles - 1 /\ response.failed = 1

====
